---------------------------- MODULE Spec2Model ----------------------------
(***************************************************************************)
(* A model of the state-labels action: a key-value store whose values are  *)
(* encoded in the names of the labels of one issue.                        *)
(*                                                                         *)
(*   src/src/labels.ts     the label codec (parseStateLabel,               *)
(*                         createStateLabelName, extractStateLabels,       *)
(*                         convertValue)                                   *)
(*   src/unnamed/part_000  the operations (lines 1-312: getOperation,      *)
(*                         getAllOperation, setOperation, removeOperation, *)
(*                         isLabelUsedByOthers) and the entry point        *)
(*                         (lines 314-484: resolveIssueNumber, run)        *)
(*                                                                         *)
(* A JavaScript string is a sequence of one-character strings, so that     *)
(* startsWith, indexOf and substring are computed as the code computes     *)
(* them.  The hosting service (the issue's label list, the repository's    *)
(* label catalog) is the environment: every call the code awaits is one    *)
(* step that either succeeds or rejects.                                   *)
(***************************************************************************)
EXTENDS Integers, Sequences, FiniteSets, TLC

(***************************************************************************)
(* Bounds of the model.                                                    *)
(***************************************************************************)
\* The longest label list an invocation is started on.
MaxLabels == 2
\* The last page of listForRepo the environment answers with a full page.
MaxPages == 2
\* The longest label name parseStateLabel is applied to on its own.
MaxName == 4
\* The longest key and the longest value createStateLabelName is applied to.
MaxPart == 2
\* The longest string convertValue is applied to.
MaxValue == 3

(***************************************************************************)
(* JavaScript string primitives.                                           *)
(***************************************************************************)
\* s.startsWith(p)
startsWith(s, p) ==
    /\ Len(p) <= Len(s)
    /\ SubSeq(s, 1, Len(p)) = p

\* t occurs in s at the 0-based index i
occursAt(s, t, i) ==
    /\ i + Len(t) <= Len(s)
    /\ SubSeq(s, i + 1, i + Len(t)) = t

\* s.indexOf(t): the first 0-based index at which t occurs in s, else -1
indexOf(s, t) ==
    IF \E i \in 0..Len(s) : occursAt(s, t, i)
    THEN CHOOSE i \in 0..Len(s) :
             /\ occursAt(s, t, i)
             /\ \A j \in 0..(i - 1) : ~occursAt(s, t, j)
    ELSE -1

\* s.substring(from)
substringFrom(s, from) == SubSeq(s, from + 1, Len(s))

\* s.substring(from, to)
substring(s, from, to) == SubSeq(s, from + 1, to)

\* s.split(sep) for a one-character sep: the parts between its occurrences
RECURSIVE split(_, _)
split(s, sep) ==
    LET i == indexOf(s, sep)
    IN  IF i = -1
        THEN <<s>>
        ELSE <<substring(s, 0, i)>> \o split(substringFrom(s, i + Len(sep)), sep)

Digits == <<"0", "1", "2", "3", "4", "5", "6", "7", "8", "9">>

IsDigit(c) == \E d \in 1..10 : Digits[d] = c

DigitValue(c) == (CHOOSE d \in 1..10 : Digits[d] = c) - 1

WhiteSpace == {" "}

\* the result of parseInt when no number can be read
NaN == [nan |-> TRUE, num |-> 0]

Number(n) == [nan |-> FALSE, num |-> n]

RECURSIVE skipWhiteSpace(_)
skipWhiteSpace(s) ==
    IF s # <<>> /\ Head(s) \in WhiteSpace THEN skipWhiteSpace(Tail(s)) ELSE s

\* the value of the longest prefix of s made of decimal digits, read after acc
RECURSIVE readDigits(_, _)
readDigits(s, acc) ==
    IF s # <<>> /\ IsDigit(Head(s))
    THEN readDigits(Tail(s), 10 * acc + DigitValue(Head(s)))
    ELSE acc

\* parseInt(s, 10): leading white space is skipped, a sign is read, then the
\* longest run of digits; NaN when there is no digit there
parseInt(s) ==
    LET t == skipWhiteSpace(s)
        negative == t # <<>> /\ Head(t) = "-"
        signed == t # <<>> /\ Head(t) \in {"-", "+"}
        body == IF signed THEN Tail(t) ELSE t
    IN  IF body = <<>> \/ ~IsDigit(Head(body))
        THEN NaN
        ELSE Number(IF negative THEN 0 - readDigits(body, 0) ELSE readDigits(body, 0))

\* the decimal digits of a natural number
RECURSIVE natToString(_)
natToString(n) ==
    IF n < 10 THEN <<Digits[n + 1]>> ELSE natToString(n \div 10) \o <<Digits[(n % 10) + 1]>>

\* num.toString() of an integer (-0 prints as "0")
numToString(n) == IF n < 0 THEN <<"-">> \o natToString(0 - n) ELSE natToString(n)

(***************************************************************************)
(* The label codec, src/src/labels.ts.                                     *)
(***************************************************************************)
\* the null of parseStateLabel
null == [found |-> FALSE, key |-> <<>>, value |-> <<>>]

expectedPrefix(prefix, separator) ==
    IF prefix # <<>> THEN prefix \o separator ELSE <<>>

\* a mutant of parseStateLabel: the value ends at the next separator
parseStateLabelValueCut(labelName, prefix, separator) ==
    IF ~startsWith(labelName, expectedPrefix(prefix, separator))
    THEN null
    ELSE LET remainder == substringFrom(labelName, Len(expectedPrefix(prefix, separator)))
             separatorIndex == indexOf(remainder, separator)
             rest == substringFrom(remainder, separatorIndex + Len(separator))
         IN  IF separatorIndex = -1
             THEN null
             ELSE [found |-> TRUE,
                   key |-> substring(remainder, 0, separatorIndex),
                   value |-> IF indexOf(rest, separator) = -1
                             THEN rest
                             ELSE substring(rest, 0, indexOf(rest, separator))]

\* a mutant of parseStateLabel: the split is at the last separator
parseStateLabelLast(labelName, prefix, separator) ==
    IF ~startsWith(labelName, expectedPrefix(prefix, separator))
    THEN null
    ELSE LET remainder == substringFrom(labelName, Len(expectedPrefix(prefix, separator)))
             at == {i \in 0..Len(remainder) : occursAt(remainder, separator, i)}
             separatorIndex == CHOOSE i \in at : \A j \in at : j <= i
         IN  IF at = {}
             THEN null
             ELSE [found |-> TRUE,
                   key |-> substring(remainder, 0, separatorIndex),
                   value |-> substringFrom(remainder, separatorIndex + Len(separator))]

parseStateLabel(labelName, prefix, separator) ==
    IF ~startsWith(labelName, expectedPrefix(prefix, separator))
    THEN null
    ELSE LET remainder == substringFrom(labelName, Len(expectedPrefix(prefix, separator)))
             separatorIndex == indexOf(remainder, separator)
         IN  IF separatorIndex = -1
             THEN null
             ELSE [found |-> TRUE,
                   key |-> substring(remainder, 0, separatorIndex),
                   value |-> substringFrom(remainder, separatorIndex + Len(separator))]

\* a mutant of createStateLabelName: the separator leads when the prefix is empty
createStateLabelNameLeading(key, value, prefix, separator) ==
    prefix \o separator \o key \o separator \o value

createStateLabelName(key, value, prefix, separator) ==
    expectedPrefix(prefix, separator) \o key \o separator \o value

\* a mutant of convertValue: every string parseInt reads is printed as a number
convertValueLoose(value) ==
    LET num == parseInt(value)
    IN  IF ~num.nan THEN numToString(num.num) ELSE value

\* a mutant of convertValue: one leading zero is dropped
convertValueDropZero(value) ==
    IF Len(value) > 1 /\ Head(value) = "0" THEN Tail(value) ELSE value

convertValue(value) ==
    LET num == parseInt(value)
    IN  IF ~num.nan /\ numToString(num.num) = value
        THEN numToString(num.num)
        ELSE value

\* the label decodes to the key: parsed && parsed.key === key
decodesTo(labelName, key, prefix, separator) ==
    LET parsed == parseStateLabel(labelName, prefix, separator)
    IN  parsed.found /\ parsed.key = key

\* the key "__proto__": an accessor every object inherits from Object.prototype
Proto == <<"_", "_", "p", "r", "o", "t", "o", "_", "_">>

\* the key "constructor"
Constructor == <<"c", "o", "n", "s", "t", "r", "u", "c", "t", "o", "r">>

\* the names of the properties an object literal inherits from Object.prototype
ObjectPrototype ==
    {Proto,
     Constructor,
     <<"h", "a", "s", "O", "w", "n", "P", "r", "o", "p", "e", "r", "t", "y">>,
     <<"i", "s", "P", "r", "o", "t", "o", "t", "y", "p", "e", "O", "f">>,
     <<"p", "r", "o", "p", "e", "r", "t", "y", "I", "s", "E", "n", "u", "m", "e", "r", "a", "b", "l", "e">>,
     <<"t", "o", "L", "o", "c", "a", "l", "e", "S", "t", "r", "i", "n", "g">>,
     <<"t", "o", "S", "t", "r", "i", "n", "g">>,
     <<"v", "a", "l", "u", "e", "O", "f">>,
     <<"_", "_", "d", "e", "f", "i", "n", "e", "G", "e", "t", "t", "e", "r", "_", "_">>,
     <<"_", "_", "d", "e", "f", "i", "n", "e", "S", "e", "t", "t", "e", "r", "_", "_">>,
     <<"_", "_", "l", "o", "o", "k", "u", "p", "G", "e", "t", "t", "e", "r", "_", "_">>,
     <<"_", "_", "l", "o", "o", "k", "u", "p", "S", "e", "t", "t", "e", "r", "_", "_">>}

\* what reading an inherited property gives: a function or an object, no string
Inherited(key) == <<"Object.prototype.">> \o key

\* state[key] = value on a map kept as the sequence of its entries: a key that
\* is already there keeps its place, a new key goes last; the object is created
\* by {}, so the key "__proto__" names the inherited setter, which ignores a
\* string and adds no entry
putEntry(state, key, value) ==
    IF key = Proto
    THEN state
    ELSE IF \E i \in 1..Len(state) : state[i].key = key
    THEN [i \in 1..Len(state) |->
              IF state[i].key = key THEN [key |-> key, value |-> value] ELSE state[i]]
    ELSE Append(state, [key |-> key, value |-> value])

RECURSIVE extractInto(_, _, _, _)
extractInto(state, labels, prefix, separator) ==
    IF labels = <<>>
    THEN state
    ELSE LET parsed == parseStateLabel(Head(labels), prefix, separator)
         IN  extractInto(IF parsed.found
                         THEN putEntry(state, parsed.key, parsed.value)
                         ELSE state,
                         Tail(labels), prefix, separator)

extractStateLabels(labels, prefix, separator) ==
    extractInto(<<>>, labels, prefix, separator)

(***************************************************************************)
(* The pure parts of the operations, src/unnamed/part_000.                 *)
(***************************************************************************)
\* a mutant of findLabel: the last label of the key is returned
findLabelLast(currentLabels, key, prefix, separator) ==
    IF \E i \in 1..Len(currentLabels) : decodesTo(currentLabels[i], key, prefix, separator)
    THEN [found |-> TRUE,
          name |-> currentLabels[CHOOSE i \in 1..Len(currentLabels) :
                       /\ decodesTo(currentLabels[i], key, prefix, separator)
                       /\ \A j \in (i + 1)..Len(currentLabels) :
                              ~decodesTo(currentLabels[j], key, prefix, separator)]]
    ELSE [found |-> FALSE, name |-> <<>>]

\* currentLabels.find(label => parsed && parsed.key === key)
findLabel(currentLabels, key, prefix, separator) ==
    IF \E i \in 1..Len(currentLabels) : decodesTo(currentLabels[i], key, prefix, separator)
    THEN [found |-> TRUE,
          name |-> currentLabels[CHOOSE i \in 1..Len(currentLabels) :
                       /\ decodesTo(currentLabels[i], key, prefix, separator)
                       /\ \A j \in 1..(i - 1) :
                              ~decodesTo(currentLabels[j], key, prefix, separator)]]
    ELSE [found |-> FALSE, name |-> <<>>]

\* a mutant of labelsToKeep: every state label is dropped
labelsToKeepNoState(currentLabels, key, prefix, separator) ==
    LET keep(labelName) == ~parseStateLabel(labelName, prefix, separator).found
    IN  SelectSeq(currentLabels, keep)

\* a mutant of labelsToKeep: only the label find returned is dropped
labelsToKeepButFirst(currentLabels, key, prefix, separator) ==
    LET first == findLabel(currentLabels, key, prefix, separator)
        at == CHOOSE i \in 1..Len(currentLabels) : currentLabels[i] = first.name
    IN  IF ~first.found
        THEN currentLabels
        ELSE SubSeq(currentLabels, 1, at - 1) \o SubSeq(currentLabels, at + 1, Len(currentLabels))

\* currentLabels.filter(label => !parsed || parsed.key !== key).map(l => l.name)
labelsToKeep(currentLabels, key, prefix, separator) ==
    LET keep(labelName) == ~decodesTo(labelName, key, prefix, separator)
    IN  SelectSeq(currentLabels, keep)

\* a mutant of setNewLabels: the labels of the key stay on the list
setNewLabelsAppend(currentLabels, key, value, prefix, separator) ==
    Append(currentLabels, createStateLabelName(key, convertValue(value), prefix, separator))

\* a mutant of setNewLabels: the new label goes first
setNewLabelsFirst(currentLabels, key, value, prefix, separator) ==
    <<createStateLabelName(key, convertValue(value), prefix, separator)>>
        \o labelsToKeep(currentLabels, key, prefix, separator)

\* the list setOperation passes to setLabels
setNewLabels(currentLabels, key, value, prefix, separator) ==
    Append(labelsToKeep(currentLabels, key, prefix, separator),
           createStateLabelName(key, convertValue(value), prefix, separator))

\* a mutant of removeNewLabels: only the label find returned is dropped
removeNewLabelsButFirst(currentLabels, key, prefix, separator) ==
    labelsToKeepButFirst(currentLabels, key, prefix, separator)

\* the list removeOperation passes to setLabels
removeNewLabels(currentLabels, key, prefix, separator) ==
    labelsToKeep(currentLabels, key, prefix, separator)

\* currentState[key] of getOperation: the entry of the key, else the property
\* of that name inherited from Object.prototype, else undefined
lookup(state, key) ==
    IF \E i \in 1..Len(state) : state[i].key = key
    THEN [defined |-> TRUE,
          value |-> state[CHOOSE i \in 1..Len(state) : state[i].key = key].value]
    ELSE IF key \in ObjectPrototype
    THEN [defined |-> TRUE, value |-> Inherited(key)]
    ELSE [defined |-> FALSE, value |-> <<>>]

getOperation(key, currentLabels, prefix, separator) ==
    LET currentValue == lookup(extractStateLabels(currentLabels, prefix, separator), key)
    IN  IF ~currentValue.defined
        THEN [success |-> FALSE, isNull |-> TRUE, value |-> <<>>]
        ELSE [success |-> TRUE, isNull |-> FALSE, value |-> currentValue.value]

\* a mutant of getAllOperation: no success when there is no state label
getAllOperationFailsEmpty(currentLabels, prefix, separator) ==
    [success |-> extractStateLabels(currentLabels, prefix, separator) # <<>>,
     state |-> extractStateLabels(currentLabels, prefix, separator)]

\* the state of getAllOperation: the entries JSON.stringify writes, in order
getAllOperation(currentLabels, prefix, separator) ==
    [success |-> TRUE, state |-> extractStateLabels(currentLabels, prefix, separator)]

\* per_page of isLabelUsedByOthers
perPage == 100

(***************************************************************************)
(* Errors.  A thrown value is an Error with a message, or something else.  *)
(***************************************************************************)
Error(message) == [isError |-> TRUE, message |-> message]

NoError == [isError |-> FALSE, message |-> <<"none">>]

\* what a rejected call of the service throws
ApiErrors == {Error(<<"API Error: Not Found">>), [isError |-> FALSE, message |-> <<"rejected">>]}

\* error instanceof Error ? error.message : 'Unknown error'
warningText(error) == IF error.isError THEN error.message ELSE <<"Unknown error">>

\* a mutant of failureMessage: the message of the error is not passed on
failureMessageGeneric(error) == <<"An unknown error occurred">>

\* the argument of core.setFailed in the catch of run
failureMessage(error) ==
    IF error.isError THEN error.message ELSE <<"An unknown error occurred">>

(***************************************************************************)
(* The synchronous start of run: inputs, resolveIssueNumber, validation.   *)
(***************************************************************************)
Operations == {"set", "remove", "get", "get-all"}

\* a mutant of resolveIssueNumber: the payload of the event goes before the input
resolveIssueNumberPayloadFirst(in) ==
    IF in.payloadIssue # 0
    THEN [error |-> NoError, number |-> in.payloadIssue]
    ELSE IF in.payloadPullRequest # 0
    THEN [error |-> NoError, number |-> in.payloadPullRequest]
    ELSE IF in.issueNumberInput # <<>>
    THEN LET issueNumber == parseInt(in.issueNumberInput)
         IN  IF issueNumber.nan
             THEN [error |-> Error(<<"Invalid issue number provided in input">>), number |-> 0]
             ELSE [error |-> NoError, number |-> issueNumber.num]
    ELSE [error |-> Error(<<"No issue or PR number provided as input and none available from GitHub context. Either provide issue-number as input or run on issue/pull_request events.">>),
          number |-> 0]

\* resolveIssueNumber: the number, or the Error it throws
resolveIssueNumber(in) ==
    IF in.issueNumberInput # <<>>
    THEN LET issueNumber == parseInt(in.issueNumberInput)
         IN  IF issueNumber.nan
             THEN [error |-> Error(<<"Invalid issue number provided in input">>), number |-> 0]
             ELSE [error |-> NoError, number |-> issueNumber.num]
    ELSE IF in.payloadIssue # 0
    THEN [error |-> NoError, number |-> in.payloadIssue]
    ELSE IF in.payloadPullRequest # 0
    THEN [error |-> NoError, number |-> in.payloadPullRequest]
    ELSE [error |-> Error(<<"No issue or PR number provided as input and none available from GitHub context. Either provide issue-number as input or run on issue/pull_request events.">>),
          number |-> 0]

\* core.getBooleanInput: the YAML spellings of true and false, else a TypeError
getBooleanInput(input) ==
    IF input \in {"true", "True", "TRUE"} THEN [error |-> NoError, value |-> TRUE]
    ELSE IF input \in {"false", "False", "FALSE"} THEN [error |-> NoError, value |-> FALSE]
    ELSE [error |-> Error(<<"Input does not meet YAML 1.2 \"Core Schema\" specification: delete-unused-labels">>),
          value |-> FALSE]

\* const [owner, repo] = repository.split('/'): undefined when there is no such part
ownerRepoOk(repository) ==
    LET parts == split(repository, <<"/">>)
    IN  Len(parts) >= 2 /\ parts[1] # <<>> /\ parts[2] # <<>>

\* a mutant of runError: the token is not checked
runErrorTokenUnchecked(in) ==
    IF in.operation = ""
    THEN Error(<<"Input required and not supplied: operation">>)
    ELSE IF resolveIssueNumber(in).error # NoError
    THEN resolveIssueNumber(in).error
    ELSE IF getBooleanInput(in.deleteUnusedLabels).error # NoError
    THEN getBooleanInput(in.deleteUnusedLabels).error
    ELSE IF ~ownerRepoOk(in.repository)
    THEN Error(<<"Invalid repository format. Expected: owner/repo">>)
    ELSE IF in.operation \notin Operations
    THEN Error(<<"Invalid operation: ", in.operation, ". Must be: set, remove, get, get-all">>)
    ELSE IF in.operation \in {"set", "remove", "get"} /\ in.key = <<>>
    THEN Error(<<"Key is required for operation: ", in.operation>>)
    ELSE IF in.operation = "set" /\ in.value = <<>>
    THEN Error(<<"Value is required for operation: ", in.operation>>)
    ELSE NoError

\* the first Error thrown before listLabelsOnIssue is called, NoError if none
runError(in) ==
    IF in.operation = ""
    THEN Error(<<"Input required and not supplied: operation">>)
    ELSE IF resolveIssueNumber(in).error # NoError
    THEN resolveIssueNumber(in).error
    ELSE IF getBooleanInput(in.deleteUnusedLabels).error # NoError
    THEN getBooleanInput(in.deleteUnusedLabels).error
    ELSE IF ~ownerRepoOk(in.repository)
    THEN Error(<<"Invalid repository format. Expected: owner/repo">>)
    ELSE IF in.operation \notin Operations
    THEN Error(<<"Invalid operation: ", in.operation, ". Must be: set, remove, get, get-all">>)
    ELSE IF in.operation \in {"set", "remove", "get"} /\ in.key = <<>>
    THEN Error(<<"Key is required for operation: ", in.operation>>)
    ELSE IF in.operation = "set" /\ in.value = <<>>
    THEN Error(<<"Value is required for operation: ", in.operation>>)
    ELSE IF in.githubToken = <<>>
    THEN Error(<<"GitHub token is required">>)
    ELSE NoError

(***************************************************************************)
(* The state.                                                              *)
(*   labels, catalog   the service: the issue's label list and the names   *)
(*                     in the repository's label catalog                   *)
(*   config            the prefix and separator inputs of the workflow     *)
(*   pc                where the invocation of run is: idle, awaiting the  *)
(*                     reply of a call of the service, or done             *)
(*   ctx               the inputs run read and the OperationContext        *)
(*   currentLabels     data of listLabelsOnIssue                           *)
(*   existingLabel     existingLabel of setOperation, labelToRemove of     *)
(*                     removeOperation                                     *)
(*   newLabels         the labels argument of the setLabels call           *)
(*   page              page of isLabelUsedByOthers                         *)
(*   calls             the calls of the service that were answered, in     *)
(*                     order                                               *)
(*   warnings, failed  the arguments of core.warning and core.setFailed    *)
(*   outputs           what core.setOutput has set                         *)
(*   result            what the operation returned: "true" or "false" for  *)
(*                     its success, "threw", or "none" before it returns   *)
(*   thrown            the value the catch of run caught, NoError if none  *)
(*   labels0, catalog0 the service when the invocation started             *)
(*   input             the inputs of the workflow step as run reads them    *)
(*   args, returned    the arguments a function of labels.ts is applied to  *)
(*                     on its own, and what it returned                     *)
(*   world             the rest of the repository: the labels of a second   *)
(*                     issue, what another writer wrote onto the issue of   *)
(*                     the invocation while it ran, and a second invocation *)
(*                     of set on the same issue: where it is, its key and   *)
(*                     value, and the labels it read                        *)
(***************************************************************************)
VARIABLES labels, catalog, config, pc, ctx, currentLabels, existingLabel,
          newLabels, page, calls, warnings, failed, outputs, result,
          thrown, labels0, catalog0, input, args, returned, world

service == <<labels, catalog>>
locals == <<ctx, currentLabels, existingLabel, newLabels, page>>
codec == <<args, returned>>
vars == <<labels, catalog, config, pc, ctx, currentLabels, existingLabel,
          newLabels, page, calls, warnings, failed, outputs, result,
          thrown, labels0, catalog0, input, args, returned, world>>

Range(s) == {s[i] : i \in 1..Len(s)}

\* ---- the inputs of the model ----
Bug == <<"b", "u", "g">>
KeyA == <<"a">>
\* a key that ends with the separator's first character
KeyColon == <<"a", ":">>
Keys == {KeyA, KeyColon}
Values == {<<"1">>, <<"2">>}
Configs == {[prefix |-> p, separator |-> s] :
               p \in {<<>>, <<"s">>}, s \in {<<":">>, <<":", ":">>}}

\* the label lists an issue starts with under a configuration: no label, one
\* that is no state label, a state label, and two labels for one key
InitLabels(c) ==
    LET a1 == createStateLabelName(KeyA, <<"1">>, c.prefix, c.separator)
        a2 == createStateLabelName(KeyA, <<"2">>, c.prefix, c.separator)
    IN  {<<>>, <<Bug>>, <<a1>>, <<a1, Bug>>, <<a1, a2>>}

BaseInput(c) ==
    [operation |-> "get-all", issueNumberInput |-> <<"7">>, payloadIssue |-> 0,
     payloadPullRequest |-> 0, githubToken |-> <<"t">>, separator |-> c.separator,
     repository |-> <<"o", "/", "r">>, prefix |-> c.prefix, key |-> <<>>,
     value |-> <<>>, deleteUnusedLabels |-> "false"]

\* the inputs of an invocation: every operation on every key and value, and
\* one input for each error of the start of run
RunInputs(c) ==
    {[BaseInput(c) EXCEPT !.operation = "set", !.key = k, !.value = v,
                          !.deleteUnusedLabels = d] :
         k \in Keys, v \in Values, d \in {"true", "false"}}
    \cup {[BaseInput(c) EXCEPT !.operation = "remove", !.key = k,
                               !.deleteUnusedLabels = d] :
              k \in Keys, d \in {"true", "false"}}
    \cup {[BaseInput(c) EXCEPT !.operation = "get", !.key = k] : k \in Keys}
    \cup {BaseInput(c),
          [BaseInput(c) EXCEPT !.operation = ""],
          [BaseInput(c) EXCEPT !.operation = "clear"],
          [BaseInput(c) EXCEPT !.operation = "get"],
          [BaseInput(c) EXCEPT !.operation = "set", !.key = KeyA],
          [BaseInput(c) EXCEPT !.githubToken = <<>>],
          [BaseInput(c) EXCEPT !.deleteUnusedLabels = "yes"],
          [BaseInput(c) EXCEPT !.operation = "remove", !.key = KeyA,
                               !.deleteUnusedLabels = "true",
                               !.issueNumberInput = <<"8">>],
          [BaseInput(c) EXCEPT !.repository = <<"o">>],
          [BaseInput(c) EXCEPT !.repository = <<"o", "/">>],
          [BaseInput(c) EXCEPT !.repository = <<"/", "r">>],
          [BaseInput(c) EXCEPT !.repository = <<"o", "/", "r", "/", "x">>],
          [BaseInput(c) EXCEPT !.operation = "remove"],
          [BaseInput(c) EXCEPT !.operation = "get", !.key = Constructor],
          [BaseInput(c) EXCEPT !.issueNumberInput = <<"x">>],
          [BaseInput(c) EXCEPT !.issueNumberInput = <<>>],
          [BaseInput(c) EXCEPT !.issueNumberInput = <<>>, !.payloadIssue = 8],
          [BaseInput(c) EXCEPT !.issueNumberInput = <<>>, !.payloadPullRequest = 9],
          [BaseInput(c) EXCEPT !.issueNumberInput = <<>>, !.payloadIssue = 8,
                               !.payloadPullRequest = 9],
          [BaseInput(c) EXCEPT !.payloadIssue = 8],
          [BaseInput(c) EXCEPT !.payloadPullRequest = 9],
          [BaseInput(c) EXCEPT !.issueNumberInput = <<"7", "x">>],
          [BaseInput(c) EXCEPT !.issueNumberInput = <<"-", "x">>],
          [BaseInput(c) EXCEPT !.issueNumberInput = <<"x">>, !.payloadIssue = 8]}

\* the data of a page of listForRepo, as the numbers of its issues: no issue,
\* issue 7 or 8 alone, both, a full page of distinct issues, and a full page
\* that repeats one issue (only such a page leads to a second request)
Pages ==
    {<<>>, <<7>>, <<8>>, <<7, 8>>, [i \in 1..perPage |-> i], [i \in 1..perPage |-> 7]}

\* ---- values of the variables between invocations ----
NoContext ==
    [operation |-> "", key |-> <<>>, value |-> <<>>, prefix |-> <<>>,
     separator |-> <<>>, deleteUnusedLabels |-> FALSE, issueNumber |-> 0]

NoLabel == [found |-> FALSE, name |-> <<>>]

NoInput ==
    [operation |-> "", issueNumberInput |-> <<>>, payloadIssue |-> 0,
     payloadPullRequest |-> 0, githubToken |-> <<>>, separator |-> <<>>,
     repository |-> <<>>, prefix |-> <<>>, key |-> <<>>, value |-> <<>>,
     deleteUnusedLabels |-> ""]

NoWorld ==
    [others |-> <<>>, written |-> FALSE, by |-> <<>>,
     pc |-> "idle", key |-> <<>>, value |-> <<>>, currentLabels |-> <<>>]

NoArgs ==
    [fn |-> "none", labelName |-> <<>>, key |-> <<>>, value |-> <<>>,
     prefix |-> <<>>, separator |-> <<>>, labels |-> <<>>]

NoReturn ==
    [fn |-> "none", parsed |-> null, text |-> <<>>, before |-> <<>>,
     state |-> <<>>, times |-> 0]

NoOutputs ==
    [success |-> "unset",
     value |-> [set |-> FALSE, isNull |-> FALSE, text |-> <<>>],
     state |-> [set |-> FALSE, entries |-> <<>>]]

Call(op) ==
    [op |-> op, ok |-> TRUE, labels |-> <<>>, name |-> <<>>, page |-> 0,
     perPage |-> 0, issues |-> <<>>]

Init ==
    /\ config \in Configs
    /\ labels \in InitLabels(config)
    /\ catalog = Range(labels)
    /\ pc = "idle"
    /\ ctx = NoContext
    /\ currentLabels = <<>>
    /\ existingLabel = NoLabel
    /\ newLabels = <<>>
    /\ page = 0
    /\ calls = <<>>
    /\ warnings = <<>>
    /\ failed = <<>>
    /\ outputs = NoOutputs
    /\ result = "none"
    /\ thrown = NoError
    /\ labels0 = labels
    /\ catalog0 = catalog
    /\ input = NoInput
    /\ args = NoArgs
    /\ returned = NoReturn
    /\ world = NoWorld

(***************************************************************************)
(* The steps of run.                                                       *)
(***************************************************************************)
Bool(b) == IF b THEN "true" ELSE "false"

\* the catch of run, lines 474-483: setFailed, then setOutput('success', false)
Catch(error) ==
    /\ thrown' = error
    /\ failed' = Append(failed, failureMessage(error))
    /\ outputs' = [outputs EXCEPT !.success = "false"]
    /\ pc' = "done"

\* setOperation or removeOperation returns, and run sets the output success
Return(success) ==
    /\ result' = Bool(success)
    /\ outputs' = [outputs EXCEPT !.success = Bool(success)]
    /\ pc' = "done"
    /\ UNCHANGED <<thrown, failed>>

\* case 'get' of run: getOperation, then setOutput of value and success
getCase(cl) ==
    LET r == getOperation(ctx.key, cl, ctx.prefix, ctx.separator)
    IN  /\ result' = Bool(r.success)
        /\ outputs' = [outputs EXCEPT
                          !.value = [set |-> TRUE, isNull |-> r.isNull, text |-> r.value],
                          !.success = Bool(r.success)]
        /\ pc' = "done"
        /\ UNCHANGED <<existingLabel, newLabels>>

\* case 'get-all' of run: getAllOperation, then setOutput of state and success
getAllCase(cl) ==
    LET r == getAllOperation(cl, ctx.prefix, ctx.separator)
    IN  /\ result' = Bool(r.success)
        /\ outputs' = [outputs EXCEPT
                          !.state = [set |-> TRUE, entries |-> r.state],
                          !.success = Bool(r.success)]
        /\ pc' = "done"
        /\ UNCHANGED <<existingLabel, newLabels>>

\* setOperation up to its call of setLabels, lines 155-192
setOperation(cl) ==
    /\ existingLabel' = findLabel(cl, ctx.key, ctx.prefix, ctx.separator)
    /\ newLabels' = setNewLabels(cl, ctx.key, ctx.value, ctx.prefix, ctx.separator)
    /\ pc' = "setLabels"
    /\ UNCHANGED <<result, outputs>>

\* a mutant of removeOperation: no early return when the key is absent
removeOperationAlways(cl) ==
    /\ existingLabel' = findLabel(cl, ctx.key, ctx.prefix, ctx.separator)
    /\ newLabels' = removeNewLabels(cl, ctx.key, ctx.prefix, ctx.separator)
    /\ pc' = "setLabels"
    /\ UNCHANGED <<result, outputs>>

\* a mutant of removeOperation: the cleanup of the catalog goes before setLabels
removeOperationCleanupFirst(cl) ==
    LET labelToRemove == findLabel(cl, ctx.key, ctx.prefix, ctx.separator)
    IN  IF ~labelToRemove.found
        THEN /\ result' = "false"
             /\ outputs' = [outputs EXCEPT !.success = "false"]
             /\ pc' = "done"
             /\ UNCHANGED <<existingLabel, newLabels>>
        ELSE /\ existingLabel' = labelToRemove
             /\ newLabels' = removeNewLabels(cl, ctx.key, ctx.prefix, ctx.separator)
             /\ pc' = IF ctx.deleteUnusedLabels THEN "listForRepo" ELSE "setLabels"
             /\ UNCHANGED <<result, outputs>>

\* removeOperation up to its call of setLabels, lines 243-275
removeOperation(cl) ==
    LET labelToRemove == findLabel(cl, ctx.key, ctx.prefix, ctx.separator)
    IN  IF ~labelToRemove.found
        THEN /\ result' = "false"
             /\ outputs' = [outputs EXCEPT !.success = "false"]
             /\ pc' = "done"
             /\ UNCHANGED <<existingLabel, newLabels>>
        ELSE /\ existingLabel' = labelToRemove
             /\ newLabels' = removeNewLabels(cl, ctx.key, ctx.prefix, ctx.separator)
             /\ pc' = "setLabels"
             /\ UNCHANGED <<result, outputs>>

\* a mutant of setCleanup: the flag is not read
setCleanupAlways == existingLabel.found

\* line 196: if (existingLabel && context.deleteUnusedLabels)
setCleanup == existingLabel.found /\ ctx.deleteUnusedLabels

\* line 279: if (context.deleteUnusedLabels)
removeCleanup == ctx.deleteUnusedLabels

cleanup == IF ctx.operation = "set" THEN setCleanup ELSE removeCleanup

\* run from its first line to the call of listLabelsOnIssue, lines 367-422
Start(in) ==
    /\ pc = "idle"
    /\ Len(labels) <= MaxLabels
    /\ in.operation = "set" =>
           Len(setNewLabels(labels, in.key, in.value, in.prefix, in.separator)) <= MaxLabels
    /\ IF runError(in) # NoError
       THEN /\ Catch(runError(in))
            /\ UNCHANGED ctx
       ELSE /\ ctx' = [operation |-> in.operation, key |-> in.key, value |-> in.value,
                       prefix |-> in.prefix, separator |-> in.separator,
                       deleteUnusedLabels |-> getBooleanInput(in.deleteUnusedLabels).value,
                       issueNumber |-> resolveIssueNumber(in).number]
            /\ pc' = "listLabelsOnIssue"
            /\ UNCHANGED <<thrown, failed, outputs>>
    /\ input' = in
    /\ UNCHANGED <<service, config, codec, world, currentLabels, existingLabel, newLabels,
                   page, calls, warnings, result, labels0, catalog0>>

\* listLabelsOnIssue resolves: run dispatches the operation, lines 416-467
ListLabelsOnIssueOk ==
    /\ pc = "listLabelsOnIssue"
    /\ currentLabels' = labels
    /\ calls' = Append(calls, [Call("listLabelsOnIssue") EXCEPT !.labels = labels])
    /\ CASE ctx.operation = "get" -> getCase(labels)
         [] ctx.operation = "get-all" -> getAllCase(labels)
         [] ctx.operation = "set" -> setOperation(labels)
         [] ctx.operation = "remove" -> removeOperation(labels)
    /\ UNCHANGED <<service, config, input, codec, world, ctx, page, warnings, failed, thrown,
                   labels0, catalog0>>

\* a mutant of ListLabelsOnIssueFail: the first rejection is followed by a retry
ListLabelsOnIssueFailRetry(error) ==
    /\ pc = "listLabelsOnIssue"
    /\ calls' = Append(calls, [Call("listLabelsOnIssue") EXCEPT !.ok = FALSE])
    /\ IF calls = <<>>
       THEN UNCHANGED <<pc, thrown, failed, outputs>>
       ELSE Catch(error)
    /\ UNCHANGED <<service, config, input, codec, world, locals, warnings, result, labels0, catalog0>>

\* listLabelsOnIssue rejects: the catch of run
ListLabelsOnIssueFail(error) ==
    /\ pc = "listLabelsOnIssue"
    /\ calls' = Append(calls, [Call("listLabelsOnIssue") EXCEPT !.ok = FALSE])
    /\ Catch(error)
    /\ UNCHANGED <<service, config, input, codec, world, locals, warnings, result, labels0, catalog0>>

\* a mutant of SetLabelsOk: the service keeps what was added since the read
SetLabelsOkMerging ==
    /\ pc = "setLabels"
    /\ labels' = LET added(l) == l \notin Range(currentLabels) \cup Range(newLabels)
                 IN  newLabels \o SelectSeq(labels, added)
    /\ catalog' = catalog \cup Range(newLabels)
    /\ calls' = Append(calls, [Call("setLabels") EXCEPT !.labels = newLabels])
    /\ IF cleanup
       THEN /\ pc' = "listForRepo"
            /\ page' = 1
            /\ UNCHANGED <<result, outputs, thrown, failed>>
       ELSE /\ Return(TRUE)
            /\ UNCHANGED page
    /\ UNCHANGED <<config, input, codec, world, ctx, currentLabels, existingLabel, newLabels,
                   warnings, labels0, catalog0>>

\* setLabels resolves: the service replaces the issue's list, and a name that
\* is not in the catalog is created there; lines 194-197 and 277-280 follow
SetLabelsOk ==
    /\ pc = "setLabels"
    /\ labels' = newLabels
    /\ catalog' = catalog \cup Range(newLabels)
    /\ calls' = Append(calls, [Call("setLabels") EXCEPT !.labels = newLabels])
    /\ IF cleanup
       THEN /\ pc' = "listForRepo"
            /\ page' = 1
            /\ UNCHANGED <<result, outputs, thrown, failed>>
       ELSE /\ Return(TRUE)
            /\ UNCHANGED page
    /\ UNCHANGED <<config, input, codec, world, ctx, currentLabels, existingLabel, newLabels, warnings,
                   labels0, catalog0>>

\* a mutant of SetLabelsFail: the rejection is swallowed and cleanup goes on
SetLabelsFailSwallowed(error) ==
    /\ pc = "setLabels"
    /\ calls' = Append(calls, [Call("setLabels") EXCEPT !.labels = newLabels, !.ok = FALSE])
    /\ IF cleanup
       THEN /\ pc' = "listForRepo"
            /\ page' = 1
            /\ UNCHANGED <<result, outputs, thrown, failed>>
       ELSE /\ Return(TRUE)
            /\ UNCHANGED page
    /\ UNCHANGED <<service, config, input, codec, world, ctx, currentLabels, existingLabel, newLabels,
                   warnings, labels0, catalog0>>

\* setLabels rejects: the service changes nothing, the operation throws and
\* the catch of run takes over
SetLabelsFail(error) ==
    /\ pc = "setLabels"
    /\ calls' = Append(calls, [Call("setLabels") EXCEPT !.labels = newLabels, !.ok = FALSE])
    /\ result' = "threw"
    /\ Catch(error)
    /\ UNCHANGED <<service, config, input, codec, world, locals, warnings, labels0, catalog0>>

\* a mutant of otherIssues: the invoking issue is not left out
otherIssuesUnfiltered(issues, issueNumber) == issues

\* issues.filter((issue) => issue.number !== context.issueNumber)
otherIssues(issues, issueNumber) ==
    LET other(number) == number # issueNumber IN SelectSeq(issues, other)

\* a mutant of pageVerdict: after a full page the next page is requested
pageVerdictFullPageMore(issues, issueNumber) ==
    IF Len(issues) >= perPage THEN "more"
    ELSE IF Len(otherIssues(issues, issueNumber)) > 0 THEN "used"
    ELSE "unused"

\* a mutant of pageVerdict: the end of the list is tested before the other issues
pageVerdictEndFirst(issues, issueNumber) ==
    IF Len(issues) < perPage THEN "unused"
    ELSE IF Len(otherIssues(issues, issueNumber)) > 0 THEN "used"
    ELSE "more"

\* isLabelUsedByOthers, lines 59-74, on one page: otherIssues.length > 0 returns
\* true, else issues.length < perPage ends the loop (false), else page++
pageVerdict(issues, issueNumber) ==
    IF Len(otherIssues(issues, issueNumber)) > 0 THEN "used"
    ELSE IF Len(issues) < perPage THEN "unused"
    ELSE "more"

\* isLabelUsedByOthers, lines 46-77: a page of listForRepo arrives
ListForRepoOk(issues) ==
    /\ pc = "listForRepo"
    /\ pageVerdict(issues, ctx.issueNumber) = "more" => page < MaxPages
    /\ calls' = Append(calls, [Call("listForRepo") EXCEPT
                                  !.name = existingLabel.name, !.page = page,
                                  !.perPage = perPage,
                                  !.issues = issues])
    /\ CASE pageVerdict(issues, ctx.issueNumber) = "used" ->
              \* isUsed: the deletion is skipped
              /\ Return(TRUE)
              /\ UNCHANGED page
         [] pageVerdict(issues, ctx.issueNumber) = "unused" ->
              \* !isUsed: deleteLabel is called
              /\ pc' = "deleteLabel"
              /\ UNCHANGED <<page, result, outputs, thrown, failed>>
         [] pageVerdict(issues, ctx.issueNumber) = "more" ->
              /\ page' = page + 1
              /\ UNCHANGED <<pc, result, outputs, thrown, failed>>
    /\ UNCHANGED <<service, config, input, codec, world, ctx, currentLabels, existingLabel, newLabels,
                   warnings, labels0, catalog0>>

\* a mutant of ListForRepoFail: a failed check counts as "not used"
ListForRepoFailUnused(error) ==
    /\ pc = "listForRepo"
    /\ calls' = Append(calls, [Call("listForRepo") EXCEPT
                                  !.name = existingLabel.name, !.page = page,
                                  !.perPage = perPage, !.ok = FALSE])
    /\ warnings' = Append(warnings, [text |-> "Failed to check if label is used by other issues",
                                     name |-> existingLabel.name,
                                     message |-> warningText(error)])
    /\ pc' = "deleteLabel"
    /\ UNCHANGED <<service, config, input, codec, world, locals, result, outputs, thrown, failed,
                   labels0, catalog0>>

\* isLabelUsedByOthers, lines 78-84: listForRepo rejects, the label counts as used
ListForRepoFail(error) ==
    /\ pc = "listForRepo"
    /\ calls' = Append(calls, [Call("listForRepo") EXCEPT
                                  !.name = existingLabel.name, !.page = page,
                                  !.perPage = perPage, !.ok = FALSE])
    /\ warnings' = Append(warnings, [text |-> "Failed to check if label is used by other issues",
                                     name |-> existingLabel.name,
                                     message |-> warningText(error)])
    /\ Return(TRUE)
    /\ UNCHANGED <<service, config, input, codec, world, locals, labels0, catalog0>>

\* deleteLabel resolves, lines 200-206 and 283-289: the service removes the
\* name from the catalog and from every issue that carries it
DeleteLabelOk ==
    /\ pc = "deleteLabel"
    /\ calls' = Append(calls, [Call("deleteLabel") EXCEPT !.name = existingLabel.name])
    /\ catalog' = catalog \ {existingLabel.name}
    /\ labels' = LET carried(l) == l # existingLabel.name IN SelectSeq(labels, carried)
    /\ world' = [world EXCEPT
                    !.others = LET carried(l) == l # existingLabel.name
                               IN  SelectSeq(world.others, carried)]
    /\ Return(TRUE)
    /\ UNCHANGED <<config, input, codec, locals, warnings, labels0, catalog0>>

\* a mutant of DeleteLabelFail: the rejection reaches the catch of run
DeleteLabelFailThrows(error) ==
    /\ pc = "deleteLabel"
    /\ calls' = Append(calls, [Call("deleteLabel") EXCEPT
                                  !.name = existingLabel.name, !.ok = FALSE])
    /\ result' = "threw"
    /\ Catch(error)
    /\ UNCHANGED <<service, config, input, codec, world, locals, warnings, labels0, catalog0>>

\* deleteLabel rejects, lines 207-218: a warning, the operation goes on
DeleteLabelFail(error) ==
    /\ pc = "deleteLabel"
    /\ calls' = Append(calls, [Call("deleteLabel") EXCEPT
                                  !.name = existingLabel.name, !.ok = FALSE])
    /\ warnings' = Append(warnings, [text |-> IF ctx.operation = "set"
                                              THEN "Failed to delete old label from repository"
                                              ELSE "Failed to delete label from repository",
                                     name |-> existingLabel.name,
                                     message |-> warningText(error)])
    /\ Return(TRUE)
    /\ UNCHANGED <<service, config, input, codec, world, locals, labels0, catalog0>>

\* the invocation is over; the next one starts from the service as it is
Finish ==
    /\ pc = "done"
    /\ pc' = "idle"
    /\ ctx' = NoContext
    /\ currentLabels' = <<>>
    /\ existingLabel' = NoLabel
    /\ newLabels' = <<>>
    /\ page' = 0
    /\ calls' = <<>>
    /\ warnings' = <<>>
    /\ failed' = <<>>
    /\ outputs' = NoOutputs
    /\ result' = "none"
    /\ thrown' = NoError
    /\ labels0' = labels
    /\ catalog0' = catalog
    /\ input' = NoInput
    /\ world' = [world EXCEPT !.written = FALSE, !.by = <<>>]
    /\ UNCHANGED <<service, config, codec>>

Next ==
    \/ \E in \in RunInputs(config) : Start(in)
    \/ ListLabelsOnIssueOk
    \/ \E error \in ApiErrors : ListLabelsOnIssueFail(error)
    \/ SetLabelsOk
    \/ \E error \in ApiErrors : SetLabelsFail(error)
    \/ \E issues \in Pages : ListForRepoOk(issues)
    \/ \E error \in ApiErrors : ListForRepoFail(error)
    \/ DeleteLabelOk
    \/ \E error \in ApiErrors : DeleteLabelFail(error)
    \/ Finish

Spec == Init /\ [][Next]_vars

\* the await of isLabelUsedByOthers, lines 50-57 and 78: the request of a page
\* is answered, with the page or with a rejection
ListForRepoAnswered ==
    \/ \E issues \in Pages : ListForRepoOk(issues)
    \/ \E error \in ApiErrors : ListForRepoFail(error)

\* the invocations when the service answers every listForRepo request
FairSpec == Spec /\ WF_vars(ListForRepoAnswered)

(***************************************************************************)
(* The invocation in a repository where others write as well: a second     *)
(* issue whose labels other invocations replace, and another writer on the *)
(* issue of the invocation.  listForRepo answers with the issues that      *)
(* carry the label when the request is made.                               *)
(***************************************************************************)
\* a label that is no state label, added by another writer
Other == <<"w">>

\* the number of the second issue
OtherIssue == 8

\* set and remove on the issue of BaseInput, which is not the second issue
WorldInputs(c) ==
    {in \in RunInputs(c) :
        /\ in.operation \in {"set", "remove"}
        /\ runError(in) = NoError
        /\ resolveIssueNumber(in).number # OtherIssue}

\* data of listForRepo({labels: name, state: 'all'}): the issues with the label
Carriers(name) ==
    (IF name \in Range(labels) THEN <<ctx.issueNumber>> ELSE <<>>)
        \o (IF name \in Range(world.others) THEN <<OtherIssue>> ELSE <<>>)

\* the label lists of the second issue
OtherLabels(c) ==
    {<<>>, <<createStateLabelName(KeyA, <<"1">>, c.prefix, c.separator)>>}

\* what another writer makes of the list of the issue: a label added that is
\* no state label, a state label added, every label removed
OtherWrites(c) ==
    {Append(labels, Other),
     Append(labels, createStateLabelName(KeyA, <<"9">>, c.prefix, c.separator)),
     <<>>}

WorldInit ==
    /\ config \in Configs
    /\ labels \in InitLabels(config)
    /\ world \in {[NoWorld EXCEPT !.others = o] : o \in OtherLabels(config)}
    /\ catalog = Range(labels) \cup Range(world.others)
    /\ pc = "idle"
    /\ ctx = NoContext
    /\ currentLabels = <<>>
    /\ existingLabel = NoLabel
    /\ newLabels = <<>>
    /\ page = 0
    /\ calls = <<>>
    /\ warnings = <<>>
    /\ failed = <<>>
    /\ outputs = NoOutputs
    /\ result = "none"
    /\ thrown = NoError
    /\ labels0 = labels
    /\ catalog0 = catalog
    /\ input = NoInput
    /\ args = NoArgs
    /\ returned = NoReturn

\* another writer replaces the list of the issue after the invocation read it
\* and before its setLabels call is answered
OtherWriter(l) ==
    /\ pc = "setLabels"
    /\ ~world.written
    /\ l # labels
    /\ Len(l) <= MaxLabels
    /\ labels' = l
    /\ catalog' = catalog \cup Range(l)
    /\ world' = [world EXCEPT !.written = TRUE, !.by = l]
    /\ UNCHANGED <<config, pc, locals, calls, warnings, failed, outputs, result, thrown,
                   labels0, catalog0, input, codec>>

\* the setLabels call of an invocation on the second issue takes effect
OtherSetLabels(l) ==
    /\ l # world.others
    /\ world' = [world EXCEPT !.others = l]
    /\ catalog' = catalog \cup Range(l)
    /\ UNCHANGED <<labels, config, pc, locals, calls, warnings, failed, outputs, result,
                   thrown, labels0, catalog0, input, codec>>

\* one invocation of set or remove, and the writes of the others while it runs
WorldNext ==
    \/ \E in \in WorldInputs(config) : Start(in)
    \/ ListLabelsOnIssueOk
    \/ \E error \in ApiErrors : ListLabelsOnIssueFail(error)
    \/ SetLabelsOk
    \/ \E error \in ApiErrors : SetLabelsFail(error)
    \/ ListForRepoOk(Carriers(existingLabel.name))
    \/ \E error \in ApiErrors : ListForRepoFail(error)
    \/ DeleteLabelOk
    \/ \E error \in ApiErrors : DeleteLabelFail(error)
    \/ \E l \in OtherWrites(config) : OtherWriter(l)
    \/ \E l \in OtherLabels(config) : OtherSetLabels(l)

WorldSpec == WorldInit /\ [][WorldNext]_vars

(***************************************************************************)
(* Two workflows set the same key on the same issue: the invocation of the *)
(* variables above, once, and a second one, again and again, of which only *)
(* the read and the replace are kept (delete-unused-labels is false, and a *)
(* rejected call of it changes nothing).                                   *)
(***************************************************************************)
\* the values the second invocation sets
SecondValues == {<<"1">>, <<"3">>}

\* the inputs of the first invocation: set of the key the second one sets
RaceInputs(c) ==
    {in \in RunInputs(c) :
        /\ in.operation = "set"
        /\ runError(in) = NoError
        /\ in.key = world.key}

RaceInit ==
    /\ config \in Configs
    /\ labels \in InitLabels(config)
    /\ world \in {[NoWorld EXCEPT !.key = k] : k \in Keys}
    /\ catalog = Range(labels)
    /\ pc = "idle"
    /\ ctx = NoContext
    /\ currentLabels = <<>>
    /\ existingLabel = NoLabel
    /\ newLabels = <<>>
    /\ page = 0
    /\ calls = <<>>
    /\ warnings = <<>>
    /\ failed = <<>>
    /\ outputs = NoOutputs
    /\ result = "none"
    /\ thrown = NoError
    /\ labels0 = labels
    /\ catalog0 = catalog
    /\ input = NoInput
    /\ args = NoArgs
    /\ returned = NoReturn

\* listLabelsOnIssue of the second invocation resolves, lines 416-422
SecondListLabelsOnIssueOk(value) ==
    /\ world.pc = "idle"
    /\ Len(setNewLabels(labels, world.key, value, config.prefix, config.separator))
           <= MaxLabels
    /\ world' = [world EXCEPT !.pc = "setLabels", !.value = value,
                              !.currentLabels = labels]
    /\ UNCHANGED <<service, config, pc, locals, calls, warnings, failed, outputs, result,
                   thrown, labels0, catalog0, input, codec>>

\* setLabels of the second invocation resolves, lines 174-192
SecondSetLabelsOk ==
    /\ world.pc = "setLabels"
    /\ labels' = setNewLabels(world.currentLabels, world.key, world.value,
                              config.prefix, config.separator)
    /\ catalog' = catalog \cup Range(labels')
    /\ world' = [world EXCEPT !.pc = "done"]
    /\ UNCHANGED <<config, pc, locals, calls, warnings, failed, outputs, result, thrown,
                   labels0, catalog0, input, codec>>

\* the second invocation is over, the next one of the same key may start
SecondFinish ==
    /\ world.pc = "done"
    /\ world' = [world EXCEPT !.pc = "idle", !.value = <<>>, !.currentLabels = <<>>]
    /\ UNCHANGED <<service, config, pc, locals, calls, warnings, failed, outputs, result,
                   thrown, labels0, catalog0, input, codec>>

RaceNext ==
    \/ \E in \in RaceInputs(config) : Start(in)
    \/ ListLabelsOnIssueOk
    \/ \E error \in ApiErrors : ListLabelsOnIssueFail(error)
    \/ SetLabelsOk
    \/ \E error \in ApiErrors : SetLabelsFail(error)
    \/ ListForRepoOk(Carriers(existingLabel.name))
    \/ \E error \in ApiErrors : ListForRepoFail(error)
    \/ DeleteLabelOk
    \/ \E error \in ApiErrors : DeleteLabelFail(error)
    \/ \E value \in SecondValues : SecondListLabelsOnIssueOk(value)
    \/ SecondSetLabelsOk
    \/ SecondFinish

RaceSpec == RaceInit /\ [][RaceNext]_vars

(***************************************************************************)
(* Invocations on keys of several kinds: a plain key, a key that ends with *)
(* the first character of the separator, and two keys that name properties *)
(* every object literal inherits.                                          *)
(***************************************************************************)
NamedKeys == {KeyA, KeyColon, Constructor, Proto}

\* the label lists the issue starts with: state labels of two keys and of the
\* key "__proto__", with and without a label that is no state label
KeyLabels(c) ==
    LET a1 == createStateLabelName(KeyA, <<"1">>, c.prefix, c.separator)
        c1 == createStateLabelName(Constructor, <<"1">>, c.prefix, c.separator)
        p1 == createStateLabelName(Proto, <<"1">>, c.prefix, c.separator)
    IN  {<<>>, <<a1>>, <<a1, c1>>, <<Bug, c1>>, <<p1>>}

\* set, remove and get of every such key
KeyInputs(c) ==
    {[BaseInput(c) EXCEPT !.operation = "set", !.key = k, !.value = <<"2">>] :
         k \in NamedKeys}
    \cup {[BaseInput(c) EXCEPT !.operation = "set", !.key = KeyA, !.value = <<"2">>,
                               !.deleteUnusedLabels = "true"]}
    \cup {[BaseInput(c) EXCEPT !.operation = "remove", !.key = k,
                               !.deleteUnusedLabels = "false"] : k \in NamedKeys}
    \cup {[BaseInput(c) EXCEPT !.operation = "get", !.key = k] : k \in NamedKeys}

\* the pages of listForRepo: no issue, and another issue
KeyPages == {<<>>, <<8>>}

KeysInit ==
    /\ config \in {c \in Configs : c.prefix = <<>>}
    /\ labels \in KeyLabels(config)
    /\ catalog = Range(labels)
    /\ pc = "idle"
    /\ ctx = NoContext
    /\ currentLabels = <<>>
    /\ existingLabel = NoLabel
    /\ newLabels = <<>>
    /\ page = 0
    /\ calls = <<>>
    /\ warnings = <<>>
    /\ failed = <<>>
    /\ outputs = NoOutputs
    /\ result = "none"
    /\ thrown = NoError
    /\ labels0 = labels
    /\ catalog0 = catalog
    /\ input = NoInput
    /\ args = NoArgs
    /\ returned = NoReturn
    /\ world = NoWorld

KeysNext ==
    \/ \E in \in KeyInputs(config) : Start(in)
    \/ ListLabelsOnIssueOk
    \/ \E error \in ApiErrors : ListLabelsOnIssueFail(error)
    \/ SetLabelsOk
    \/ \E error \in ApiErrors : SetLabelsFail(error)
    \/ \E issues \in KeyPages : ListForRepoOk(issues)
    \/ \E error \in ApiErrors : ListForRepoFail(error)
    \/ DeleteLabelOk
    \/ \E error \in ApiErrors : DeleteLabelFail(error)
    \/ Finish

KeysSpec == KeysInit /\ [][KeysNext]_vars

(***************************************************************************)
(* The functions of labels.ts applied on their own: the arguments are      *)
(* drawn when the behaviour starts, a step applies the function.           *)
(***************************************************************************)
run == <<labels, catalog, config, pc, ctx, currentLabels, existingLabel,
         newLabels, page, calls, warnings, failed, outputs, result, thrown,
         labels0, catalog0, input, world>>

\* the strings of at most n characters of a set
Strings(chars, n) == UNION {[1..k -> chars] : k \in 0..n}

ParseArgs ==
    {[NoArgs EXCEPT !.fn = "parseStateLabel", !.labelName = n,
                    !.prefix = c.prefix, !.separator = c.separator] :
         n \in Strings({"s", "a", ":"}, MaxName), c \in Configs}

CreateArgs ==
    {[NoArgs EXCEPT !.fn = "createStateLabelName", !.key = k, !.value = v,
                    !.prefix = c.prefix, !.separator = c.separator] :
         k \in Strings({"a", ":"}, MaxPart), v \in Strings({"a", ":"}, MaxPart),
         c \in Configs}

ConvertArgs ==
    {[NoArgs EXCEPT !.fn = "convertValue", !.value = v] :
         v \in Strings({"0", "1", "-", "+", " ", "."}, MaxValue)}

\* the names of the lists extractStateLabels is applied to: one that is no
\* state label, two for one key, one for a second key, for the empty key and
\* for two keys that name properties of Object.prototype
ExtractNames(c) ==
    {Bug}
    \cup {createStateLabelName(k, <<"1">>, c.prefix, c.separator) :
              k \in {KeyA, <<"b">>, <<>>, Proto, Constructor}}
    \cup {createStateLabelName(KeyA, <<"2">>, c.prefix, c.separator)}

ExtractArgs ==
    UNION {{[NoArgs EXCEPT !.fn = "extractStateLabels", !.labels = l,
                           !.prefix = c.prefix, !.separator = c.separator] :
                l \in Strings(ExtractNames(c), MaxLabels)} : c \in Configs}

CodecInit ==
    /\ args \in ParseArgs \cup CreateArgs \cup ConvertArgs \cup ExtractArgs
    /\ returned = NoReturn
    /\ labels = <<>>
    /\ catalog = {}
    /\ config = [prefix |-> args.prefix, separator |-> args.separator]
    /\ pc = "idle"
    /\ ctx = NoContext
    /\ currentLabels = <<>>
    /\ existingLabel = NoLabel
    /\ newLabels = <<>>
    /\ page = 0
    /\ calls = <<>>
    /\ warnings = <<>>
    /\ failed = <<>>
    /\ outputs = NoOutputs
    /\ result = "none"
    /\ thrown = NoError
    /\ labels0 = labels
    /\ catalog0 = catalog
    /\ input = NoInput
    /\ world = NoWorld

ParseStateLabel ==
    /\ args.fn = "parseStateLabel"
    /\ returned.fn = "none"
    /\ returned' = [NoReturn EXCEPT
                       !.fn = "parseStateLabel",
                       !.parsed = parseStateLabel(args.labelName, args.prefix,
                                                  args.separator)]
    /\ UNCHANGED <<args, run>>

CreateStateLabelName ==
    /\ args.fn = "createStateLabelName"
    /\ returned.fn = "none"
    /\ returned' = [NoReturn EXCEPT
                       !.fn = "createStateLabelName",
                       !.text = createStateLabelName(args.key, args.value, args.prefix,
                                                     args.separator)]
    /\ UNCHANGED <<args, run>>

\* parseStateLabel applied to the name createStateLabelName returned
ParseCreated ==
    /\ returned.fn = "createStateLabelName"
    /\ returned' = [returned EXCEPT
                       !.fn = "parseStateLabel",
                       !.parsed = parseStateLabel(returned.text, args.prefix,
                                                  args.separator)]
    /\ UNCHANGED <<args, run>>

ConvertValue ==
    /\ args.fn = "convertValue"
    /\ returned.fn = "none"
    /\ returned' = [NoReturn EXCEPT
                       !.fn = "convertValue", !.before = args.value,
                       !.text = convertValue(args.value), !.times = 1]
    /\ UNCHANGED <<args, run>>

\* convertValue applied to what convertValue returned
ConvertValueAgain ==
    /\ returned.fn = "convertValue"
    /\ returned.times = 1
    /\ returned' = [returned EXCEPT
                       !.before = returned.text,
                       !.text = convertValue(returned.text), !.times = 2]
    /\ UNCHANGED <<args, run>>

ExtractStateLabels ==
    /\ args.fn = "extractStateLabels"
    /\ returned.fn = "none"
    /\ returned' = [NoReturn EXCEPT
                       !.fn = "extractStateLabels",
                       !.state = extractStateLabels(args.labels, args.prefix,
                                                    args.separator)]
    /\ UNCHANGED <<args, run>>

CodecNext ==
    \/ ParseStateLabel
    \/ CreateStateLabelName
    \/ ParseCreated
    \/ ConvertValue
    \/ ConvertValueAgain
    \/ ExtractStateLabels

CodecSpec == CodecInit /\ [][CodecNext]_vars

(***************************************************************************)
(* Vocabulary of the properties.                                           *)
(***************************************************************************)
\* the positions in the log of the calls of one operation of the service
CallsOf(op) == {i \in 1..Len(calls) : calls[i].op = op}

\* the operation was entered: run dispatched it on currentLabels
Entered(operation) ==
    /\ ctx.operation = operation
    /\ \/ pc \in {"setLabels", "listForRepo", "deleteLabel"}
       \/ pc = "done" /\ result # "none"

\* setLabels was answered, with success or not
SetLabelsAnswered == CallsOf("setLabels") # {}

SetLabelsSucceeded == \E i \in CallsOf("setLabels") : calls[i].ok

SetLabelsFailed == \E i \in CallsOf("setLabels") : ~calls[i].ok

\* the list the answered setLabels call carried
Written == calls[CHOOSE i \in CallsOf("setLabels") : TRUE].labels

\* how many labels of a list decode to the key
CountKey(list, key, prefix, separator) ==
    Cardinality({i \in 1..Len(list) : decodesTo(list[i], key, prefix, separator)})

\* the names of a list that do not decode to the key, in their order
RECURSIVE NotDecoding(_, _, _, _)
NotDecoding(list, key, prefix, separator) ==
    IF list = <<>>
    THEN <<>>
    ELSE IF decodesTo(Head(list), key, prefix, separator)
    THEN NotDecoding(Tail(list), key, prefix, separator)
    ELSE <<Head(list)>> \o NotDecoding(Tail(list), key, prefix, separator)

\* the first separator of key + separator + value is the one after the key:
\* the key holds no separator, and no end of the key and start of the
\* separator make one
KeyDecodes(key, separator) == indexOf(key \o separator, separator) = Len(key)

C2_ExpectedList ==
    NotDecoding(currentLabels, ctx.key, ctx.prefix, ctx.separator)
        \o <<createStateLabelName(ctx.key, convertValue(ctx.value), ctx.prefix, ctx.separator)>>

C3_NoOpRemove ==
    (/\ Entered("remove")
     /\ \A i \in 1..Len(currentLabels) :
            ~decodesTo(currentLabels[i], ctx.key, ctx.prefix, ctx.separator)) =>
        /\ pc = "done"
        /\ result = "false"
        /\ Len(calls) = 1 /\ calls[1].op = "listLabelsOnIssue"
        /\ labels = labels0
        /\ catalog = catalog0

\* a remove of an absent key from a list that is not empty, cleanup enabled
C3_Witness ==
    /\ pc = "done"
    /\ Entered("remove")
    /\ ctx.deleteUnusedLabels
    /\ currentLabels # <<>>
    /\ result = "false"

DeleteLabelCalled == pc = "deleteLabel" \/ CallsOf("deleteLabel") # {}

C5_DeleteOnlyAfterCleanCheck ==
    /\ DeleteLabelCalled =>
           /\ CallsOf("listForRepo") # {}
           /\ \A j \in CallsOf("listForRepo") :
                  /\ calls[j].ok
                  /\ \A k \in 1..Len(calls[j].issues) : calls[j].issues[k] = ctx.issueNumber
                  /\ calls[j].name = existingLabel.name
                  /\ \A i \in CallsOf("deleteLabel") : j < i /\ calls[i].name = calls[j].name
           /\ \E j \in CallsOf("listForRepo") : Len(calls[j].issues) < perPage
    /\ (\E j \in CallsOf("listForRepo") :
            \E k \in 1..Len(calls[j].issues) : calls[j].issues[k] # ctx.issueNumber) =>
           /\ ~DeleteLabelCalled
           /\ pc = "done"
           /\ result = "true"

\* a usage check whose second page held another issue
C5_Witness ==
    /\ pc = "done"
    /\ \E j \in CallsOf("listForRepo") :
           /\ calls[j].page = 2
           /\ \E k \in 1..Len(calls[j].issues) : calls[j].issues[k] # ctx.issueNumber
    /\ result = "true"

(***************************************************************************)
(* C6.  Fail-safe usage check: when a listForRepo request fails, the check *)
(* answers "used": one warning is emitted, deleteLabel is not called, and  *)
(* the set or remove returns success true.                                 *)
(***************************************************************************)
C6_FailedCheckKeepsLabel ==
    (\E j \in CallsOf("listForRepo") : ~calls[j].ok) =>
        /\ pc = "done"
        /\ result = "true"
        /\ outputs.success = "true"
        /\ failed = <<>>
        /\ Len(warnings) = 1
        /\ warnings[1].text = "Failed to check if label is used by other issues"
        /\ warnings[1].name = existingLabel.name
        /\ ~DeleteLabelCalled
        /\ catalog0 \subseteq catalog

\* the request for the second page failed
C6_Witness ==
    /\ pc = "done"
    /\ \E j \in CallsOf("listForRepo") : calls[j].page = 2 /\ ~calls[j].ok

(***************************************************************************)
(* C7.  Once setLabels has succeeded, set and remove return success true   *)
(* whatever the cleanup does: nothing is thrown, setFailed is not called.  *)
(***************************************************************************)
C7_CleanupNeverFails ==
    SetLabelsSucceeded =>
        /\ thrown = NoError
        /\ failed = <<>>
        /\ result \in {"none", "true"}
        /\ pc = "done" => result = "true" /\ outputs.success = "true"
        /\ (\E i \in CallsOf("deleteLabel") : ~calls[i].ok) =>
               /\ pc = "done"
               /\ Len(warnings) = 1
               /\ warnings[1].text \in {"Failed to delete old label from repository",
                                        "Failed to delete label from repository"}
               /\ warnings[1].name = existingLabel.name

\* the catalog delete failed
C7_Witness ==
    /\ pc = "done"
    /\ \E i \in CallsOf("deleteLabel") : ~calls[i].ok
    /\ Len(warnings) = 1

(***************************************************************************)
(* C8.  Cleanup is conditional: set calls neither listForRepo nor          *)
(* deleteLabel when deleteUnusedLabels is false or no current label        *)
(* decodes to the key; remove calls neither when deleteUnusedLabels is     *)
(* false.                                                                  *)
(***************************************************************************)
C8_NoCleanupWithoutCause ==
    (\/ /\ Entered("set")
        /\ \/ ~ctx.deleteUnusedLabels
           \/ CountKey(currentLabels, ctx.key, ctx.prefix, ctx.separator) = 0
     \/ Entered("remove") /\ ~ctx.deleteUnusedLabels) =>
        /\ pc \notin {"listForRepo", "deleteLabel"}
        /\ CallsOf("listForRepo") = {}
        /\ CallsOf("deleteLabel") = {}

\* a set that replaced a label with deleteUnusedLabels false
C8_Witness ==
    /\ pc = "done"
    /\ Entered("set")
    /\ ~ctx.deleteUnusedLabels
    /\ existingLabel.found
    /\ result = "true"

(***************************************************************************)
(* C9.  When setLabels fails, set and remove fail: the error reaches the   *)
(* catch of run, no success true is returned, no listForRepo or            *)
(* deleteLabel call follows, and the issue's list and the catalog are as   *)
(* they were before the operation.                                         *)
(***************************************************************************)
C9_FailedReplaceChangesNothing ==
    SetLabelsFailed =>
        /\ pc = "done"
        /\ result = "threw"
        /\ thrown # NoError
        /\ outputs.success = "false"
        /\ Len(calls) = 2 /\ calls[2].op = "setLabels"
        /\ labels = labels0
        /\ catalog = catalog0

\* the replace of a set failed where cleanup would have followed
C9_Witness ==
    /\ pc = "done"
    /\ SetLabelsFailed
    /\ ctx.operation = "set"
    /\ ctx.deleteUnusedLabels
    /\ existingLabel.found

(***************************************************************************)
(* C10.  As stated: every fatal error of run ends the invocation with      *)
(* setFailed called once with the message of the value that was thrown and *)
(* the output success false; after a failure of listLabelsOnIssue no       *)
(* operation is entered and no setLabels or deleteLabel call is made.      *)
(***************************************************************************)
C10_AfterFailedList ==
    (\E i \in CallsOf("listLabelsOnIssue") : ~calls[i].ok) =>
        /\ Len(calls) = 1
        /\ result = "none"
        /\ pc = "done"
        /\ thrown # NoError
        /\ labels = labels0 /\ catalog = catalog0

C10_MessageVerbatim ==
    /\ thrown # NoError =>
           /\ pc = "done"
           /\ failed = <<thrown.message>>
           /\ outputs.success = "false"
    /\ C10_AfterFailedList

\* C10 as amended: the message is that of the thrown value when it is an
\* Error, and 'An unknown error occurred' when it is not
C10_MessageOfError ==
    /\ thrown # NoError =>
           /\ pc = "done"
           /\ thrown.isError => failed = <<thrown.message>>
           /\ ~thrown.isError => failed = << <<"An unknown error occurred">> >>
           /\ outputs.success = "false"
    /\ thrown = NoError => failed = <<>>
    /\ C10_AfterFailedList

\* listLabelsOnIssue rejected with an Error
C10_Witness ==
    /\ pc = "done"
    /\ \E i \in CallsOf("listLabelsOnIssue") : ~calls[i].ok
    /\ thrown.isError
    /\ failed = <<thrown.message>>

(***************************************************************************)
(* C11.  Validation errors abort before any call of the service.           *)
(***************************************************************************)
\* the repository input is not an owner, a slash and a repository name
NotOwnerSlashRepo(repository) ==
    LET slash == indexOf(repository, <<"/">>)
    IN  \/ slash <= 0
        \/ slash + 1 = Len(repository)
        \/ repository[slash + 2] = "/"

\* the inputs the claim lists as validation errors
InvalidInput(in) ==
    \/ in.operation \notin {"set", "remove", "get", "get-all"}
    \/ in.operation \in {"set", "remove", "get"} /\ in.key = <<>>
    \/ in.operation = "set" /\ in.value = <<>>
    \/ NotOwnerSlashRepo(in.repository)
    \/ in.githubToken = <<>>

\* the messages of the validation errors of run, lines 381-405
IsValidationError(error) ==
    /\ error.isError
    /\ error.message[1] \in {"Invalid repository format. Expected: owner/repo",
                             "Invalid operation: ",
                             "Key is required for operation: ",
                             "Value is required for operation: ",
                             "GitHub token is required"}

\* C11: an invocation whose inputs have one of the listed validation errors
\* ends at once, failed, without any call of the service; and whenever the
\* catch of run holds a validation error, no call of the service was made in
\* the invocation and the service is as the invocation found it.
C11_ValidationBeforeCalls ==
    /\ (pc # "idle" /\ InvalidInput(input)) =>
           /\ pc = "done"
           /\ thrown.isError
           /\ failed = <<thrown.message>>
           /\ outputs.success = "false"
           /\ calls = <<>>
           /\ service = <<labels0, catalog0>>
    /\ IsValidationError(thrown) =>
           /\ calls = <<>>
           /\ service = <<labels0, catalog0>>
           /\ InvalidInput(input)

\* an invocation without a token has ended with the validation error
C11_Witness ==
    /\ pc = "done"
    /\ input.githubToken = <<>>
    /\ thrown = Error(<<"GitHub token is required">>)
    /\ calls = <<>>

(***************************************************************************)
(* C18, C19.  getOperation and getAllOperation.                            *)
(***************************************************************************)
\* the entries of a map whose key is the given one
EntriesOf(state, key) == {i \in 1..Len(state) : state[i].key = key}

\* the only call of the invocation is the listLabelsOnIssue of run
OnlyListed == Len(calls) = 1 /\ calls[1].op = "listLabelsOnIssue" /\ calls[1].ok

\* C18 as claimed: when get has returned, it reports success and the value v
\* if the map extractStateLabels builds from currentLabels holds the key with
\* v, and success false with value null in every other case; the operation
\* calls nothing and the service is unchanged.
C18_GetReportsTheMap ==
    (Entered("get") /\ pc = "done") =>
        LET state == extractStateLabels(currentLabels, ctx.prefix, ctx.separator)
            at == EntriesOf(state, ctx.key)
        IN  /\ at # {} =>
                   /\ result = "true"
                   /\ outputs.value =
                          [set |-> TRUE, isNull |-> FALSE,
                           text |-> state[CHOOSE i \in at : TRUE].value]
            /\ at = {} =>
                   /\ result = "false"
                   /\ outputs.value = [set |-> TRUE, isNull |-> TRUE, text |-> <<>>]
            /\ OnlyListed
            /\ service = <<labels0, catalog0>>

\* C19: when get-all has returned, success is true and the state output holds
\* the key-value pairs of extractStateLabels(currentLabels, prefix,
\* separator), each key once, none when no label decodes; the operation
\* calls nothing and the service is unchanged.
C19_GetAllReportsTheMap ==
    (Entered("get-all") /\ pc = "done") =>
        LET state == extractStateLabels(currentLabels, ctx.prefix, ctx.separator)
            entries == outputs.state.entries
        IN  /\ result = "true"
            /\ outputs.success = "true"
            /\ outputs.state.set
            /\ Range(entries) = Range(state)
            /\ \A i, j \in 1..Len(entries) : entries[i].key = entries[j].key => i = j
            /\ (\A i \in 1..Len(currentLabels) :
                    ~parseStateLabel(currentLabels[i], ctx.prefix, ctx.separator).found)
                   => entries = <<>>
            /\ OnlyListed
            /\ service = <<labels0, catalog0>>

\* get-all has returned the one pair of an issue with two labels for a key
C19_Witness ==
    /\ Entered("get-all")
    /\ pc = "done"
    /\ Len(currentLabels) = 2
    /\ CountKey(currentLabels, KeyA, ctx.prefix, ctx.separator) = 2
    /\ outputs.state.entries = <<[key |-> KeyA, value |-> <<"2">>]>>

(***************************************************************************)
(* C12 - C17, C20.  The functions of labels.ts.                            *)
(***************************************************************************)
\* parseStateLabel has returned, and the name it was applied to
Parsed == returned.fn = "parseStateLabel"

ParsedName == IF args.fn = "parseStateLabel" THEN args.labelName ELSE returned.text

\* the name after the expected prefix, when it starts with it
Remainder == substringFrom(ParsedName, Len(expectedPrefix(args.prefix, args.separator)))

\* parseStateLabel was applied to the name createStateLabelName made of the arguments
RoundTrip == Parsed /\ args.fn = "createStateLabelName"

\* C12 as claimed: when the key does not contain the separator, parsing the
\* created name gives back the key and the value.
C12_RoundTripOfKeyWithoutSeparator ==
    (RoundTrip /\ indexOf(args.key, args.separator) = -1) =>
        returned.parsed = [found |-> TRUE, key |-> args.key, value |-> args.value]

\* C12 amended: parsing the created name gives back the key and the value
\* exactly when the first separator in key + separator is the one after the
\* key (the key holds no separator, and no end of the key followed by a start
\* of the separator forms one).
C12_RoundTripOfDecodingKey ==
    RoundTrip =>
        (KeyDecodes(args.key, args.separator)
            <=> returned.parsed = [found |-> TRUE, key |-> args.key, value |-> args.value])

\* a name with a prefix and a value that holds the separator made the round trip
C12_Witness ==
    /\ RoundTrip
    /\ args.key = KeyA
    /\ args.prefix # <<>>
    /\ indexOf(args.value, args.separator) # -1
    /\ returned.parsed = [found |-> TRUE, key |-> KeyA, value |-> args.value]

\* C13 as claimed: parseStateLabel returns null when the name does not start
\* with the expected prefix, when the remainder holds no separator, and when
\* the key before the first separator of the remainder is empty.
C13_NullOnMalformedName ==
    Parsed =>
        ((\/ ~startsWith(ParsedName, expectedPrefix(args.prefix, args.separator))
          \/ indexOf(Remainder, args.separator) = -1
          \/ indexOf(Remainder, args.separator) = 0)
            => returned.parsed = null)

\* C14: parseStateLabel finds a key and a value exactly when the name starts
\* with the expected prefix and the remainder holds a separator; the
\* remainder is then key + separator + value, no separator starts in the
\* remainder before the end of the key, and the value is all that follows,
\* further separators included.
C14_SplitAtFirstSeparator ==
    Parsed =>
        /\ returned.parsed.found <=>
               /\ startsWith(ParsedName, expectedPrefix(args.prefix, args.separator))
               /\ \E i \in 0..Len(Remainder) : occursAt(Remainder, args.separator, i)
        /\ returned.parsed.found =>
               /\ Remainder = returned.parsed.key \o args.separator \o returned.parsed.value
               /\ \A i \in 0..(Len(returned.parsed.key) - 1) :
                      ~occursAt(Remainder, args.separator, i)

\* a name was parsed whose value holds a further separator
C14_Witness ==
    /\ Parsed
    /\ args.fn = "parseStateLabel"
    /\ returned.parsed.found
    /\ returned.parsed.key # <<>>
    /\ indexOf(returned.parsed.value, args.separator) # -1

\* C15: createStateLabelName returns prefix + separator + key + separator +
\* value when the prefix is not empty and key + separator + value when it is,
\* the key and the value as they were given.
C15_NameOfParts ==
    returned.fn = "createStateLabelName" =>
        returned.text =
            IF args.prefix = <<>>
            THEN args.key \o args.separator \o args.value
            ELSE args.prefix \o args.separator \o args.key \o args.separator \o args.value

\* a name was created without a prefix from a key that holds the separator
C15_Witness ==
    /\ returned.fn = "createStateLabelName"
    /\ args.prefix = <<>>
    /\ args.separator = <<":">>
    /\ args.key = KeyColon
    /\ returned.text = <<"a", ":", ":">> \o args.value

\* C16: convertValue returns the string it was given.
C16_ConvertValueIsIdentity ==
    (returned.fn = "convertValue" /\ returned.times = 1) => returned.text = args.value

\* convertValue has returned a string with a leading zero as it was
C16_Witness ==
    /\ returned.fn = "convertValue"
    /\ returned.times = 1
    /\ args.value = <<"0", "1">>
    /\ returned.text = <<"0", "1">>

\* C17: convertValue applied to what convertValue returned returns the same.
C17_ConvertValueIdempotent ==
    (returned.fn = "convertValue" /\ returned.times = 2) => returned.text = returned.before

\* convertValue was applied twice to a string with two leading zeros
C17_Witness ==
    /\ returned.fn = "convertValue"
    /\ returned.times = 2
    /\ args.value = <<"0", "0", "1">>
    /\ returned.text = returned.before

\* the labels of the list that parse
Parsing == {i \in 1..Len(args.labels) :
               parseStateLabel(args.labels[i], args.prefix, args.separator).found}

KeyAt(i) == parseStateLabel(args.labels[i], args.prefix, args.separator).key

ValueAt(i) == parseStateLabel(args.labels[i], args.prefix, args.separator).value

\* C20 as claimed: the map extractStateLabels returns holds exactly the keys
\* of the labels that parse, each once, and for each key the value of the
\* last label of the list that decodes to it.
C20_MapOfParsingLabels ==
    returned.fn = "extractStateLabels" =>
        /\ {returned.state[e].key : e \in 1..Len(returned.state)} = {KeyAt(i) : i \in Parsing}
        /\ \A e, f \in 1..Len(returned.state) :
               returned.state[e].key = returned.state[f].key => e = f
        /\ \A e \in 1..Len(returned.state) :
               \E i \in Parsing :
                   /\ KeyAt(i) = returned.state[e].key
                   /\ ValueAt(i) = returned.state[e].value
                   /\ \A j \in Parsing : KeyAt(j) = KeyAt(i) => j <= i

(***************************************************************************)
(* C21, C29.  The issue number of the invocation.                          *)
(***************************************************************************)
\* run got past its validation: the context of the operation exists
Validated == pc # "idle" /\ ctx # NoContext

NoIssueNumberMessage ==
    <<"No issue or PR number provided as input and none available from GitHub context. Either provide issue-number as input or run on issue/pull_request events.">>

\* C21: an invocation that got past validation works on the number written in
\* the issue-number input when that input is not empty, whatever the event
\* holds; else on the issue number of the payload; else on its pull-request
\* number.  With none of the three, an invocation that names its operation
\* fails with the 'No issue or PR number provided' message and calls nothing.
C21_IssueNumberPrecedence ==
    /\ Validated =>
           /\ input.issueNumberInput # <<>> =>
                  \A n \in 0..9 : numToString(n) = input.issueNumberInput
                                       => ctx.issueNumber = n
           /\ (input.issueNumberInput = <<>> /\ input.payloadIssue # 0) =>
                  ctx.issueNumber = input.payloadIssue
           /\ (input.issueNumberInput = <<>> /\ input.payloadIssue = 0) =>
                  /\ input.payloadPullRequest # 0
                  /\ ctx.issueNumber = input.payloadPullRequest
    /\ (/\ pc # "idle"
        /\ input.operation # ""
        /\ input.issueNumberInput = <<>>
        /\ input.payloadIssue = 0
        /\ input.payloadPullRequest = 0) =>
           /\ pc = "done"
           /\ failed = <<NoIssueNumberMessage>>
           /\ calls = <<>>

\* the input 7 was used although the event is about issue 8
C21_Witness ==
    /\ Validated
    /\ input.issueNumberInput = <<"7">>
    /\ input.payloadIssue = 8
    /\ ctx.issueNumber = 7
    /\ calls # <<>>

\* the string is a number written in decimal digits
NumericIdentifier(text) ==
    /\ text # <<>>
    /\ \A i \in 1..Len(text) : IsDigit(text[i])

\* C29 as claimed: an invocation that names its operation and whose
\* issue-number input is not empty and is not a number in decimal digits (a
\* number followed by other characters included) fails with 'Invalid issue
\* number provided in input' and calls nothing.
C29_NonNumericIssueNumberAborts ==
    (/\ pc # "idle"
     /\ input.operation # ""
     /\ input.issueNumberInput # <<>>
     /\ ~NumericIdentifier(input.issueNumberInput)) =>
        /\ pc = "done"
        /\ failed = <<<<"Invalid issue number provided in input">>>>
        /\ calls = <<>>

(***************************************************************************)
(* C22.  The output success.                                               *)
(***************************************************************************)
\* run has ended without reaching its catch
EndedWithoutFailure == pc = "done" /\ thrown = NoError

\* C22 as claimed: when run ends without failure, the output success is the
\* success of the operation and setFailed was not called; get and remove of
\* a key that no current label decodes to end that way with success false,
\* get with the value null.
C22_SuccessIsTheOperationsFlag ==
    /\ EndedWithoutFailure =>
           /\ result \in {"true", "false"}
           /\ outputs.success = result
           /\ failed = <<>>
    /\ (/\ pc = "done"
        /\ ctx.operation \in {"get", "remove"}
        /\ calls # <<>>
        /\ calls[1].ok
        /\ CountKey(currentLabels, ctx.key, ctx.prefix, ctx.separator) = 0) =>
           /\ EndedWithoutFailure
           /\ outputs.success = "false"
           /\ ctx.operation = "get" =>
                  outputs.value = [set |-> TRUE, isNull |-> TRUE, text |-> <<>>]

(***************************************************************************)
(* C23.  Several current labels for the key.                               *)
(***************************************************************************)
\* the first label of currentLabels that decodes to the key of the invocation
FirstOfKey ==
    currentLabels[CHOOSE i \in 1..Len(currentLabels) :
        /\ decodesTo(currentLabels[i], ctx.key, ctx.prefix, ctx.separator)
        /\ \A j \in 1..(i - 1) :
               ~decodesTo(currentLabels[j], ctx.key, ctx.prefix, ctx.separator)]

\* C23: when set or remove was entered with several current labels that
\* decode to the key, the existing label is the first of them in list order,
\* every listForRepo and deleteLabel call of the invocation names it, and
\* the list passed to setLabels holds the labels of currentLabels that do not
\* decode to the key and, for set only, one label that does.
C23_FirstLabelIsTheExistingOne ==
    ((Entered("set") \/ Entered("remove"))
        /\ CountKey(currentLabels, ctx.key, ctx.prefix, ctx.separator) > 1) =>
        /\ existingLabel = [found |-> TRUE, name |-> FirstOfKey]
        /\ \A i \in CallsOf("listForRepo") \cup CallsOf("deleteLabel") :
               calls[i].name = FirstOfKey
        /\ CountKey(newLabels, ctx.key, ctx.prefix, ctx.separator) =
               (IF ctx.operation = "set" THEN 1 ELSE 0)
        /\ Len(newLabels) =
               Len(NotDecoding(currentLabels, ctx.key, ctx.prefix, ctx.separator))
                   + (IF ctx.operation = "set" THEN 1 ELSE 0)
        /\ SetLabelsAnswered => Written = newLabels

\* remove found two labels for the key and deleted the first from the catalog
C23_Witness ==
    /\ Entered("remove")
    /\ CountKey(currentLabels, ctx.key, ctx.prefix, ctx.separator) = 2
    /\ \E i \in CallsOf("deleteLabel") : calls[i].ok /\ calls[i].name = currentLabels[1]
    /\ currentLabels[1] # currentLabels[2]
    /\ newLabels = <<>>

(***************************************************************************)
(* C24.  The pages of isLabelUsedByOthers.                                 *)
(***************************************************************************)
\* the page holds an issue other than the one of the invocation
HasOtherIssue(call) == \E k \in 1..Len(call.issues) : call.issues[k] # ctx.issueNumber

\* the last listForRepo call of the invocation
LastListForRepo == calls[CHOOSE i \in CallsOf("listForRepo") :
                             \A j \in CallsOf("listForRepo") : j <= i]

\* isLabelUsedByOthers returned false: run went on to deleteLabel
ReturnedUnused == pc = "deleteLabel" \/ CallsOf("deleteLabel") # {}

\* isLabelUsedByOthers returned true: the operation ended without deleteLabel
ReturnedUsed == pc = "done" /\ CallsOf("listForRepo") # {} /\ CallsOf("deleteLabel") = {}

\* C24: the listForRepo calls of an invocation follow each other in the call
\* log and ask for the pages 1, 2, 3, ... with 100 results per page; a page
\* is followed by another one only if it arrived with 100 results, none of
\* them another issue; the check returns true at the first page that holds
\* another issue (or that fails), and false exactly when the last page
\* arrived with fewer than 100 results and none of them another issue.
C24_PagesInOrder ==
    CallsOf("listForRepo") # {} =>
        LET first == CHOOSE i \in CallsOf("listForRepo") :
                         \A j \in CallsOf("listForRepo") : i <= j
            count == Cardinality(CallsOf("listForRepo"))
        IN  /\ CallsOf("listForRepo") = first..(first + count - 1)
            /\ \A k \in 1..count :
                   /\ calls[first + k - 1].page = k
                   /\ calls[first + k - 1].perPage = 100
                   /\ k < count =>
                          /\ calls[first + k - 1].ok
                          /\ Len(calls[first + k - 1].issues) = 100
                          /\ ~HasOtherIssue(calls[first + k - 1])
            /\ (LastListForRepo.ok /\ HasOtherIssue(LastListForRepo)) => ReturnedUsed
            /\ ~LastListForRepo.ok => ReturnedUsed
            /\ ReturnedUnused <=>
                   /\ LastListForRepo.ok
                   /\ Len(LastListForRepo.issues) < 100
                   /\ ~HasOtherIssue(LastListForRepo)
            /\ pc = "listForRepo" <=>
                   /\ LastListForRepo.ok
                   /\ Len(LastListForRepo.issues) = 100
                   /\ ~HasOtherIssue(LastListForRepo)

\* a second page was fetched and showed another issue: no delete
C24_Witness ==
    /\ Cardinality(CallsOf("listForRepo")) = 2
    /\ LastListForRepo.page = 2
    /\ HasOtherIssue(LastListForRepo)
    /\ ReturnedUsed

(***************************************************************************)
(* C25, C26.  The order and the number of the calls of an invocation.      *)
(***************************************************************************)
\* C25: in the call log of an invocation every listForRepo call and every
\* deleteLabel call comes after a setLabels call that succeeded, and every
\* deleteLabel call comes after all listForRepo calls, of which there is at
\* least one; while setLabels is awaited no such call has been made.
C25_ReplaceThenCheckThenDelete ==
    /\ \A i \in CallsOf("listForRepo") \cup CallsOf("deleteLabel") :
           \E j \in CallsOf("setLabels") : j < i /\ calls[j].ok
    /\ \A d \in CallsOf("deleteLabel") :
           /\ CallsOf("listForRepo") # {}
           /\ \A l \in CallsOf("listForRepo") : l < d /\ calls[l].ok
    /\ pc = "setLabels" => CallsOf("listForRepo") \cup CallsOf("deleteLabel") = {}
    /\ pc \in {"listForRepo", "deleteLabel"} => SetLabelsSucceeded

\* an invocation made its four kinds of calls, one after the other
C25_Witness ==
    /\ pc = "done"
    /\ Len(calls) = 4
    /\ calls[1].op = "listLabelsOnIssue"
    /\ calls[2].op = "setLabels"
    /\ calls[3].op = "listForRepo"
    /\ calls[4].op = "deleteLabel"
    /\ calls[4].ok

\* C26: in the call log of an invocation listLabelsOnIssue, setLabels and
\* deleteLabel each occur at most once, a call that failed is the last call
\* of the log, and after a failed call nothing is awaited any more.
C26_NoRetry ==
    /\ \A op \in {"listLabelsOnIssue", "setLabels", "deleteLabel"} :
           Cardinality(CallsOf(op)) <= 1
    /\ \A i \in 1..Len(calls) :
           ~calls[i].ok =>
               /\ i = Len(calls)
               /\ pc = "done"

\* setLabels was rejected: it is the last call, and the only setLabels call
C26_Witness ==
    /\ pc = "done"
    /\ Len(calls) = 2
    /\ calls[2].op = "setLabels"
    /\ ~calls[2].ok
    /\ result = "threw"

(***************************************************************************)
(* C27, C28.  Other writers.                                               *)
(***************************************************************************)
\* the list set or remove computes from the labels run read
ComputedFromRead ==
    IF ctx.operation = "set"
    THEN Append(NotDecoding(currentLabels, ctx.key, ctx.prefix, ctx.separator),
                createStateLabelName(ctx.key, convertValue(ctx.value), ctx.prefix,
                                     ctx.separator))
    ELSE NotDecoding(currentLabels, ctx.key, ctx.prefix, ctx.separator)

\* C27: once setLabels succeeded, and as long as no deleteLabel call was
\* made, the list of the issue is the list computed from the labels read at
\* the start of the invocation, whatever another writer wrote onto the issue
\* between the read and the replace: a label only the other writer added is
\* not on the issue, and a label the other writer removed is there again
\* unless it decodes to the key.
C27_LastWriterWins ==
    (SetLabelsSucceeded /\ CallsOf("deleteLabel") = {}) =>
        /\ labels = ComputedFromRead
        /\ world.written =>
               /\ \A name \in Range(world.by) \ Range(ComputedFromRead) :
                      name \notin Range(labels)
               /\ \A name \in Range(currentLabels) \ Range(world.by) :
                      ~decodesTo(name, ctx.key, ctx.prefix, ctx.separator)
                          => name \in Range(labels)

\* another writer added a label between the read and the replace, and the
\* replace succeeded: the label is gone
C27_Witness ==
    /\ pc = "done"
    /\ result = "true"
    /\ world.written
    /\ Other \in Range(world.by)
    /\ Other \notin Range(labels)
    /\ labels = ComputedFromRead
    /\ labels # <<>>

\* a successful deleteLabel call takes effect in this step
DeleteTakesEffect ==
    /\ pc = "deleteLabel"
    /\ Len(calls') = Len(calls) + 1
    /\ calls'[Len(calls')].op = "deleteLabel"
    /\ calls'[Len(calls')].ok

\* C28 as claimed: in the step in which a deleteLabel call takes effect, the
\* second issue does not carry the label that is deleted.
C28_DeleteOnlyUnreferenced ==
    [][DeleteTakesEffect => existingLabel.name \notin Range(world.others)]_vars

(***************************************************************************)
(* C30.  The catalog delete of setOperation.                               *)
(***************************************************************************)
\* the name of the label setOperation writes
NewLabelName ==
    createStateLabelName(ctx.key, convertValue(ctx.value), ctx.prefix, ctx.separator)

\* C30 as claimed: no deleteLabel call of setOperation names the label the
\* operation has just written, and when set has returned after writing the
\* name the key's label already had, that label is in the catalog and on
\* the issue.
C30_NewLabelNeverDeleted ==
    Entered("set") =>
        /\ \A i \in CallsOf("deleteLabel") : calls[i].name # NewLabelName
        /\ (/\ pc = "done"
            /\ result = "true"
            /\ existingLabel = [found |-> TRUE, name |-> NewLabelName]) =>
               /\ NewLabelName \in catalog
               /\ NewLabelName \in Range(labels)

(***************************************************************************)
(* C31.  Set, then get.                                                    *)
(***************************************************************************)
\* what getOperation returns for the key of the invocation on the list the
\* setLabels call carried
GetOnWritten == getOperation(ctx.key, Written, ctx.prefix, ctx.separator)

\* C31 as claimed: the key is not empty and the separator is no substring of
\* it; once the setLabels call of setOperation has succeeded, getOperation of
\* the key on the written list returns success with convertValue(value).
\* The claim is read in its favour: the keys are those that decode as well
\* (KeyDecodes), so that a key ending with the start of the separator is
\* not what refutes it.
C31_SetThenGet ==
    (/\ Entered("set")
     /\ SetLabelsSucceeded
     /\ ctx.key # <<>>
     /\ indexOf(ctx.key, ctx.separator) = -1
     /\ KeyDecodes(ctx.key, ctx.separator)) =>
        GetOnWritten = [success |-> TRUE, isNull |-> FALSE,
                        value |-> convertValue(ctx.value)]

(***************************************************************************)
(* C32.  What set and remove leave alone.                                  *)
(***************************************************************************)
\* the keys the labels of a list decode to
ParsedKeys(list) ==
    {parseStateLabel(list[i], ctx.prefix, ctx.separator).key :
         i \in {j \in 1..Len(list) :
                    parseStateLabel(list[j], ctx.prefix, ctx.separator).found}}

\* the labels of a list that are no state labels, in their order
NonStateLabels(list) ==
    LET plain(labelName) == ~parseStateLabel(labelName, ctx.prefix, ctx.separator).found
    IN  SelectSeq(list, plain)

\* the written list and the list read give every key but the key of the
\* invocation the same value, and hold the same labels that are no state labels
Frame ==
    /\ \A k \in NamedKeys \cup ParsedKeys(currentLabels) \cup ParsedKeys(Written) :
           k # ctx.key =>
               lookup(extractStateLabels(Written, ctx.prefix, ctx.separator), k)
                   = lookup(extractStateLabels(currentLabels, ctx.prefix, ctx.separator), k)
    /\ NonStateLabels(Written) = NonStateLabels(currentLabels)

\* C32 as claimed: for a key the separator is no substring of, once the
\* setLabels call of setOperation or removeOperation has succeeded, the
\* written list decodes every other key to the value it had in the list read
\* and holds every label of that list that is no state label.
C32_FrameOfSeparatorFreeKey ==
    (/\ Entered("set") \/ Entered("remove")
     /\ SetLabelsSucceeded
     /\ indexOf(ctx.key, ctx.separator) = -1) => Frame

\* C32 as amended: the same for removeOperation with any key, and for
\* setOperation with a key that decodes (KeyDecodes): the separator is no
\* substring of it and no end of it makes a separator with the start of one.
C32_FrameOfDecodingKey ==
    (/\ Entered("set") \/ Entered("remove")
     /\ SetLabelsSucceeded
     /\ ctx.operation = "set" => KeyDecodes(ctx.key, ctx.separator)) => Frame

\* a set replaced the label of key a on a list that also held a label of the
\* key constructor: the written list still decodes constructor to "1"
C32_Witness ==
    /\ pc = "done"
    /\ Entered("set")
    /\ result = "true"
    /\ ctx.key = KeyA
    /\ existingLabel.found
    /\ Constructor \in ParsedKeys(currentLabels)
    /\ lookup(extractStateLabels(Written, ctx.prefix, ctx.separator), Constructor)
           = [defined |-> TRUE, value |-> <<"1">>]

(***************************************************************************)
(* C33.  Remove, then get.                                                 *)
(***************************************************************************)
\* C33 as claimed, for any key: once the setLabels call of removeOperation
\* has succeeded, no label of the written list decodes to the key,
\* getOperation of the key on that list returns no success and the value
\* null, and removeOperation of the key on that list finds no label to
\* remove, which is its return of no success.
C33_RemoveThenGet ==
    (Entered("remove") /\ SetLabelsSucceeded) =>
        /\ CountKey(Written, ctx.key, ctx.prefix, ctx.separator) = 0
        /\ GetOnWritten = [success |-> FALSE, isNull |-> TRUE, value |-> <<>>]
        /\ ~findLabel(Written, ctx.key, ctx.prefix, ctx.separator).found

(***************************************************************************)
(* C34.  Two invocations of set for one key on one issue.                  *)
(***************************************************************************)
\* no two labels of the list decode to the same key
AtMostOnePerKey(list) ==
    \A i, j \in 1..Len(list) :
        LET left == parseStateLabel(list[i], config.prefix, config.separator)
            right == parseStateLabel(list[j], config.prefix, config.separator)
        IN  (left.found /\ right.found /\ left.key = right.key) => i = j

\* exactly one label of the list decodes to the key, and it is this name
OnlyLabelOfKey(list, key, name) ==
    LET at == {i \in 1..Len(list) : decodesTo(list[i], key, config.prefix, config.separator)}
    IN  Cardinality(at) = 1 /\ \A i \in at : list[i] = name

\* the name the second invocation writes
SecondLabelName ==
    createStateLabelName(world.key, convertValue(world.value), config.prefix,
                         config.separator)

\* in this step the setLabels call of the first invocation takes effect
FirstReplaces ==
    /\ pc = "setLabels"
    /\ Len(calls') = Len(calls) + 1
    /\ calls'[Len(calls')].op = "setLabels"
    /\ calls'[Len(calls')].ok

\* in this step the setLabels call of the second invocation takes effect
SecondReplaces == world.pc = "setLabels" /\ world'.pc = "done"

\* after the replace of this step the list holds one label of the key, the
\* one the invocation that replaced has written; after any step the list
\* holds at most one label of the key (I1)
ReplaceLeavesItsLabel ==
    /\ FirstReplaces => OnlyLabelOfKey(labels', world.key, NewLabelName)
    /\ SecondReplaces => OnlyLabelOfKey(labels', world.key, SecondLabelName)
    /\ CountKey(labels', world.key, config.prefix, config.separator) <= 1

\* C34 as claimed: the list the issue starts with has at most one label for
\* a key, and the key the invocations set holds no separator; however their
\* reads and replaces interleave, after every replace the list of the issue
\* holds exactly one label that decodes to the key, the one this replace
\* wrote, and it never holds two.
C34_OneLabelAfterEveryReplace ==
    [][(AtMostOnePerKey(labels0) /\ indexOf(world.key, config.separator) = -1)
           => ReplaceLeavesItsLabel]_vars

\* C34 as amended: the same for a key that decodes (KeyDecodes).
C34_OneLabelOfDecodingKey ==
    [][(AtMostOnePerKey(labels0) /\ KeyDecodes(world.key, config.separator))
           => ReplaceLeavesItsLabel]_vars

\* both invocations read the same list, which held a label of the key, the
\* first one replaced and then the second one: the list holds the label of
\* the second one alone
C34_Witness ==
    /\ AtMostOnePerKey(labels0)
    /\ KeyDecodes(world.key, config.separator)
    /\ SetLabelsSucceeded
    /\ CallsOf("deleteLabel") = {}
    /\ world.pc = "done"
    /\ world.value = <<"3">>
    /\ world.currentLabels = currentLabels
    /\ existingLabel.found
    /\ OnlyLabelOfKey(labels, world.key, SecondLabelName)

(***************************************************************************)
(* C35.  The usage check ends.                                             *)
(***************************************************************************)
\* no issue is listed twice on the page
Distinct(issues) ==
    \A i, j \in 1..Len(issues) : issues[i] = issues[j] => i = j

\* every page listForRepo has answered with lists distinct issues
PagesDistinct ==
    \A i \in CallsOf("listForRepo") : calls[i].ok => Distinct(calls[i].issues)

\* at most one page was requested, the first, and isLabelUsedByOthers has
\* returned once it was answered
OnePageRequested ==
    /\ Cardinality(CallsOf("listForRepo")) <= 1
    /\ \A i \in CallsOf("listForRepo") : calls[i].page = 1
    /\ pc = "listForRepo" => (CallsOf("listForRepo") = {} /\ page = 1)

\* C35: as long as the pages list distinct issues, isLabelUsedByOthers
\* requests no page but the first and has returned when that request is
\* answered; and when the service answers every request, a usage check that
\* was begun returns (or a page that repeats an issue arrives).
C35_UsageCheckEnds ==
    /\ [](PagesDistinct => OnePageRequested)
    /\ (pc = "listForRepo" /\ PagesDistinct) ~> (pc # "listForRepo" \/ ~PagesDistinct)

\* the first page was a full page of distinct issues, and the check returned
\* that the label is used without asking for the second page
C35_Witness ==
    /\ pc = "done"
    /\ result = "true"
    /\ Cardinality(CallsOf("listForRepo")) = 1
    /\ LastListForRepo.ok
    /\ Len(LastListForRepo.issues) = perPage
    /\ Distinct(LastListForRepo.issues)
    /\ CallsOf("deleteLabel") = {}

=============================================================================
